---- MODULE Spec2Model ----
(***************************************************************************)
(* Verification model of container-hotplug.                                *)
(*                                                                         *)
(* SpecAttach  the attach protocol of the cgroup-v2 device filter          *)
(*             (src/src/cgroup.rs, DeviceAccessControllerV2::new).         *)
(* Spec        the supervisor once the container handle exists.  The tree  *)
(*             holds two run loops: hotplug() of src/src/hotplug/mod.rs,   *)
(*             which attaches and detaches devices, and the loop of        *)
(*             create() in src/src/main.rs, which consumes the event       *)
(*             stream and decides when the process ends.  Init chooses     *)
(*             which of the two runs (entry).                              *)
(***************************************************************************)
EXTENDS Integers, Sequences, FiniteSets, TLC

\* ---------------------------------------------------------------- bounds
\* Programs that are attached to the cgroup before the driver is built.
MaxProgs == 3
\* Events taken from the live udev monitor in one run.
MaxEvents == 3

\* Kernel uevents while create() runs.
MaxKernel == 1

\* Calls of MntNamespace::enter.
MaxEnters == 2

\* Uevents one UdevSender is asked to send.
MaxSends == 3

VARIABLES
    \* --- cgroup.rs: DeviceAccessControllerV2 ---
    apc,           \* position inside new()
    attached,      \* programs currently attached to the cgroup
    existing,      \* handles returned by CgroupDevice::query, not yet detached
    pin,           \* what sits at /sys/fs/bpf/<id>-device-filter
    aerr,          \* the step whose error new() returned, "" while none
    runtimeProgs,  \* programs attached when new() was entered (never changes)
    \* --- which run loop this run executes ---
    entry,         \* "attach" (construction only), "hotplug" or "create"
    \* --- hotplug/mod.rs: udev_stream ---
    phase,         \* "enum": initial snapshot, "live": netlink monitor
    enumerated,    \* devices of the snapshot not yet yielded
    nlive,         \* events taken from the monitor so far
    startedCount,  \* Event::Started yielded so far
    \* --- hotplug/mod.rs: hotplug ---
    hpc,           \* "run", "done" (Ok(status)), "failed" (Err), "panicked"
    devices,       \* the live map: syspath -> HotplugDeviceSummary
    ops,           \* container operations performed for the last event
    opErr,         \* the operation whose error ended the last handler, or ""
    detached,      \* summary taken out of the live map by the last event, if
                   \* that event was a remove (else NoSummary)
    lastEvent,     \* kind of the last event the loop matched
    startCb,       \* calls of start_cb so far
    result,        \* value returned by hotplug(): a status, or -1
    \* --- the container and its handle ---
    filterMap,     \* DEVICE_PERM: <<type, major/minor>> -> access bits
    filterOpt,     \* cgroup_device_filter: "some" or "taken"
    fs,            \* the container's /dev: path -> node
    cstate,        \* "running", "exited" (cgroup unpopulated), "removed"
    cstatus,       \* exit status of the container's init
    removeEv,      \* docker destroy event: "pending", "seen", "lost"
    \* --- main.rs: create ---
    cpc,           \* "loop", "kill", "wait", "drop", "exited", "failed"
    notifier,      \* the pipe to the parent: "some" or "none"
    notified,      \* bytes written to the parent
    kills,         \* SIGKILLs delivered to the container's init
    killCalls,     \* calls of Container::kill
    hubDetached,   \* a Detach of a root device was taken from the stream
    detachAlive,   \* the container was running when that Detach was taken
    watch,         \* the populated watch channel: "pending", "true", "closed"
    exitCode,      \* exit code of the process, -1 while it has none
    \* --- main.rs: do_main, the parent of the fork ---
    ppc,           \* "read", "join", "exited"
    parentGot,     \* what parent.read returned: "", "byte", "eof", "error"
    parentExit,    \* exit code of the parent, -1 while it runs
    \* --- dev/monitor.rs: DeviceMonitor and the kernel it listens to ---
    mpc,           \* "idle", "new", "scan", "ready", "failed"
    present,       \* udev devices the kernel has at the moment
    sockq,         \* uevents queued in the monitor socket
    readable,      \* the read readiness AsyncFd holds for the socket
    seen,          \* DeviceMonitor.seen: syspath -> Device
    scanned,       \* what scan_devices returned under the root, as Devices
    mlog,          \* the DeviceEvents the monitor has returned so far
    nkern,         \* kernel uevents so far
    unheard,       \* syspaths the enumeration reported and the kernel removed
                   \* while no monitor socket was open
    \* --- cgroup_device_filter: check_device ---
    devCtx,        \* the bpf_cgroup_dev_ctx of the last access checked
    devRet,        \* what check_device returned for it, -1 before any check
    permSet,       \* the access last passed to set_permission, by key
    \* --- hotplug/kobject_uevent.rs: UdevSender ---
    sender,        \* "none", "ready" (new returned Ok), "failed"
    seqNum,        \* UdevSender.seq_num
    sendLog,       \* the messages handed to sendmsg, with the outcome
    \* --- util/namespace.rs: IdMap ---
    idPc,          \* "none", "parsed" (parse returned Ok), "failed"
    idMap,         \* IdMap.map: the (inside, outside, count) lines
    idIn,          \* the id last given to translate
    idOut,         \* what translate returned for it
    \* --- main.rs: do_main and the head of create() ---
    argv,          \* std::env::args()
    euid,          \* effective uid of the process
    execArgv,      \* the arguments runc was exec'ed with, <<>> while it was not
    forks,         \* calls of fork that returned
    mainErr,       \* the error do_main returned before the fork, "" for none
    cfgErr,        \* the error create() returned before it started runc
    runcRuns,      \* runc processes spawned by create()
    runcExit,      \* how runc ended: -1 while it has not, -2 without an exit
                   \* code (a signal), else its exit code
    cfgUser,       \* process.user of config.json as <<uid, gid>>, each a u32
    handle,        \* <<uid, gid>> of the Container that new() returned
    \* --- docker/container.rs: pipe_signals ---
    sigPc,         \* the signal task: "none", "listen", "exited", "failed"
    sigLog,        \* the signals received and the kill each one led to
    \* --- util/namespace.rs: MntNamespace::enter ---
    wpc,           \* the worker thread: "none", "unshare", "setns", "secbits",
                   \* "uid", "gid", "run", "done", "failed", "panicked"
    caller,        \* the calling thread: mount namespace, fs struct, secure
                   \* bits, uid, gid
    worker,        \* the same for the worker thread
    fsView,        \* fs struct -> the file system its root and cwd are in
    nsIds,         \* what uid(0) and gid(0) translate to, -1 for an error
    enterRet,      \* what the last enter returned: "", "ok", "err"
    enters         \* calls of enter so far

attachVars == <<apc, attached, existing, pin, aerr, runtimeProgs>>

streamVars == <<phase, enumerated, nlive, startedCount>>

loopVars == <<hpc, devices, ops, opErr, detached, lastEvent, startCb, result>>

handleVars == <<filterMap, filterOpt, fs, cstate, cstatus, removeEv>>

parentVars == <<ppc, parentGot, parentExit>>

monVars == <<mpc, present, sockq, readable, seen, scanned, mlog, nkern, unheard>>

filterChkVars == <<devCtx, devRet, permSet>>

\* The components that are exercised on their own.
senderVars == <<sender, seqNum, sendLog>>

idVars == <<idPc, idMap, idIn, idOut>>

childVars == <<runcExit, cfgUser, handle>>

mainVars == <<argv, euid, execArgv, forks, mainErr, cfgErr, runcRuns, childVars>>

nsVars == <<wpc, caller, worker, fsView, nsIds, enterRet, enters>>

sigVars == <<sigPc, sigLog>>

unitVars == <<filterChkVars, senderVars, idVars, mainVars, nsVars, sigVars>>

createVars == <<cpc, notifier, notified, kills, killCalls, hubDetached, detachAlive, watch,
                exitCode, parentVars, monVars, unitVars>>

supVars == <<entry, streamVars, loopVars, handleVars, createVars>>

vars == <<attachVars, supVars>>

\* The programs found on the cgroup are 1..MaxProgs; the driver's own program
\* is the next id.
Own == MaxProgs + 1

ProgIds == 1..MaxProgs

\* A Vec is iterated front to back.
RECURSIVE SeqOf(_)
SeqOf(S) ==
    IF S = {} THEN <<>>
    ELSE LET m == CHOOSE x \in S : \A y \in S : x <= y
         IN  <<m>> \o SeqOf(S \ {m})

NoSummary == [sys |-> <<>>, num |-> 0, node |-> "", link |-> ""]

NoCtx == [access_type |-> 0, major |-> 0, minor |-> 0]

\* A thread of the supervisor as the process starts: root, in the host's
\* mount namespace, sharing the process's fs struct.
HostThread == [mnt |-> "host", fs |-> 1, secbits |-> "", uid |-> 0, gid |-> 0]

NsIdle ==
    /\ wpc = "none" /\ caller = HostThread /\ worker = HostThread
    /\ fsView = <<"host">> /\ nsIds = <<0, 0>> /\ enterRet = "" /\ enters = 0

\* Option<u32>::None, and a word that does not parse as a u32.
NoId == <<-1, -1>>

\* No uid and gid yet.
NoUser == <<NoId, NoId>>

\* The components that are exercised on their own, before they are used.
UnitIdle ==
    /\ devCtx = NoCtx /\ devRet = -1 /\ permSet = <<>>
    /\ sender = "none" /\ seqNum = 0 /\ sendLog = <<>>
    /\ idPc = "none" /\ idMap = <<>> /\ idIn = NoId /\ idOut = NoId
    /\ argv = <<>> /\ euid = 0 /\ execArgv = <<>> /\ forks = 0
    /\ mainErr = "" /\ cfgErr = "" /\ runcRuns = 0
    /\ runcExit = -1 /\ cfgUser = NoUser /\ handle = NoUser
    /\ sigPc = "none" /\ sigLog = <<>>
    /\ NsIdle

\* The supervisor's variables while only the driver is being constructed.
SupIdle ==
    /\ entry = "attach"
    /\ phase = "enum" /\ enumerated = <<>> /\ nlive = 0 /\ startedCount = 0
    /\ hpc = "idle" /\ devices = <<>> /\ ops = <<>> /\ opErr = ""
    /\ detached = NoSummary /\ lastEvent = "none" /\ startCb = 0 /\ result = -1
    /\ filterMap = <<>> /\ filterOpt = "some" /\ fs = <<>>
    /\ cstate = "running" /\ cstatus = 0 /\ removeEv = "pending"
    /\ cpc = "idle" /\ notifier = "some" /\ notified = 0 /\ kills = 0
    /\ killCalls = 0 /\ hubDetached = FALSE /\ detachAlive = FALSE
    /\ watch = "pending"
    /\ exitCode = -1
    /\ ppc = "idle" /\ parentGot = "" /\ parentExit = -1
    /\ mpc = "idle" /\ present = {} /\ sockq = <<>> /\ seen = <<>>
    /\ scanned = <<>> /\ mlog = <<>> /\ unheard = {} /\ readable = FALSE
    /\ nkern = 0
    /\ UnitIdle

\* ------------------------------------------------- cgroup.rs: V2::new

\* The container runtime has installed its device filter before the wrapper
\* builds its own; a crashed earlier supervisor may have left a pin behind.
InitAttach ==
    /\ apc = "open"
    /\ runtimeProgs \in (SUBSET ProgIds) \ {{}}
    /\ attached = runtimeProgs
    /\ existing = <<>>
    /\ pin \in {"none", "stale"}
    /\ aerr = ""
    /\ SupIdle

\* An error return that drops the handles of the programs it has queried,
\* which detaches them.
AttachFailDropping ==
    /\ apc' = "failed"
    /\ aerr' = apc
    /\ attached' = attached \ {existing[i] : i \in DOMAIN existing}
    /\ existing' = <<>>
    /\ UNCHANGED <<pin, runtimeProgs, supVars>>

\* The `?` of a step: new() returns that step's error; existing_programs is
\* a ManuallyDrop and is not dropped.
AttachFail ==
    /\ apc' = "failed"
    /\ aerr' = apc
    /\ UNCHANGED <<attached, existing, pin, runtimeProgs, supVars>>

\* File::open(cgroup)?
OpenCgroup ==
    /\ apc = "open"
    /\ \/ /\ apc' = "load"
          /\ UNCHANGED <<attached, existing, pin, aerr, runtimeProgs, supVars>>
       \/ AttachFail

\* Bpf::load(..)?, program_mut("check_device")?, program.load()?
LoadProgram ==
    /\ apc = "load"
    /\ \/ /\ apc' = "query"
          /\ UNCHANGED <<attached, existing, pin, aerr, runtimeProgs, supVars>>
       \/ AttachFail

\* A query that drops its handles at once detaches what it found.
QueryExistingDetaching ==
    /\ apc = "query"
    /\ existing' = <<>>
    /\ attached' = {}
    /\ apc' = "attach"
    /\ UNCHANGED <<pin, aerr, runtimeProgs, supVars>>

\* ManuallyDrop::new(CgroupDevice::query(&cgroup_fd)?): the handles are kept,
\* nothing is detached.
QueryExisting ==
    /\ apc = "query"
    /\ \/ /\ existing' = SeqOf(attached)
          /\ apc' = "attach"
          /\ UNCHANGED <<attached, pin, aerr, runtimeProgs, supVars>>
       \/ AttachFail

\* program.attach(&cgroup_fd)?
AttachOwn ==
    /\ apc = "attach"
    /\ \/ /\ attached' = attached \cup {Own}
          /\ apc' = "unlink"
          /\ UNCHANGED <<existing, pin, aerr, runtimeProgs, supVars>>
       \/ AttachFail

\* let _ = std::fs::remove_file(&pin): the result is ignored.
RemoveStalePin ==
    /\ apc = "unlink"
    /\ pin' \in {"none", pin}
    /\ apc' = "pin"
    /\ UNCHANGED <<attached, existing, aerr, runtimeProgs, supVars>>

\* program.pin(&pin)?: fails when the path is still taken.
PinProgram ==
    /\ apc = "pin"
    /\ \/ /\ pin = "none"
          /\ pin' = "own"
          /\ apc' = "detach"
          /\ UNCHANGED <<attached, existing, aerr, runtimeProgs, supVars>>
       \/ AttachFail

\* for existing_program in existing_programs { existing_program.detach()? }
DetachExisting ==
    /\ apc = "detach"
    /\ existing # <<>>
    /\ \/ /\ attached' = attached \ {Head(existing)}
          /\ existing' = Tail(existing)
          /\ UNCHANGED <<apc, pin, aerr, runtimeProgs, supVars>>
       \/ AttachFail

\* bpf.take_map("DEVICE_PERM")?.try_into()?; Ok(Self { map, pin })
TakeMap ==
    /\ apc = "detach"
    /\ existing = <<>>
    /\ \/ /\ apc' = "done"
          /\ UNCHANGED <<attached, existing, pin, aerr, runtimeProgs, supVars>>
       \/ AttachFail

NextAttach ==
    \/ OpenCgroup
    \/ LoadProgram
    \/ QueryExisting
    \/ AttachOwn
    \/ RemoveStalePin
    \/ PinProgram
    \/ DetachExisting
    \/ TakeMap

SpecAttach == InitAttach /\ [][NextAttach]_vars

\* ------------------------------------------------ devices known to udev

\* cgroup.rs: DeviceType::Character and the Access bits.
Character == 2

MKNOD == 1

READ == 2

WRITE == 4

\* The root device given on the command line, and the device inside it.
HubPath == <<"sys", "hub">>

DevPath == <<"sys", "hub", "tty">>

\* udev devices: syspath, device number (major, minor), devnode ("" when the
\* device has none) and the properties a symlink rule looks at.
DevHub == [sys |-> HubPath, num |-> <<1, 1>>, node |-> "/dev/bus/1", props |-> "hub"]

DevTty == [sys |-> DevPath, num |-> <<2, 0>>, node |-> "/dev/ttyUSB0", props |-> "serial"]

\* The same syspath after the kernel re-enumerated it.
DevTtyB == [sys |-> DevPath, num |-> <<2, 1>>, node |-> "/dev/ttyUSB1", props |-> "serial"]

DevAcm == [sys |-> <<"sys", "hub", "acm">>, num |-> <<3, 0>>, node |-> "/dev/ttyACM0", props |-> "serial"]

\* A USB interface: no device number, no devnode.
DevIface == [sys |-> <<"sys", "hub", "if0">>, num |-> <<0, 0>>, node |-> "", props |-> "serial"]

\* A device outside the root device's sub-tree.
DevOther == [sys |-> <<"sys", "usb9">>, num |-> <<4, 0>>, node |-> "/dev/ttyUSB9", props |-> "serial"]

Universe == {DevHub, DevTty, DevTtyB, DevAcm, DevIface, DevOther}

\* What the enumerator can find when the supervisor starts, in scan order.
Snapshots ==
    { <<DevHub, DevTty>>,
      <<DevHub, DevAcm, DevIface, DevTty>>,
      <<DevHub, DevOther>>,
      <<>> }

\* The --symlink rules; two of them match the same properties.
Symlinks ==
    << [props |-> "serial", path |-> "/dev/serial0"],
       [props |-> "serial", path |-> "/dev/serial1"] >>

\* Exit statuses the container's init can end with.
Statuses == {0, 5, 42, 261}

\* ------------------------------------------------------- pure helpers

Put(f, k, v) == [x \in (DOMAIN f) \cup {k} |-> IF x = k THEN v ELSE f[x]]

Drop(f, k) == [x \in (DOMAIN f) \ {k} |-> f[x]]

\* Path::starts_with compares whole components.
StartsWith(p, prefix) ==
    /\ Len(prefix) <= Len(p)
    /\ SubSeq(p, 1, Len(prefix)) = prefix

\* DeviceExt::summary: None unless the device has a number and a devnode.
HasSummary(d) == d.node # ""

\* Event::from_udev: an add needs a summary, a remove does not, anything else
\* is dropped.
FromUdev(t, d) ==
    CASE t = "add" -> IF HasSummary(d) THEN [t |-> "add", d |-> d] ELSE [t |-> "none"]
      [] t = "remove" -> [t |-> "remove", d |-> d]
      [] OTHER -> [t |-> "none"]

\* A map_fn that lets every device through.
MapFnUnfiltered(t, d) == FromUdev(t, d)

\* map_fn of udev_stream: devices outside the root device are dropped.
MapFn(t, d) ==
    IF ~StartsWith(d.sys, HubPath) THEN [t |-> "none"] ELSE FromUdev(t, d)

\* Symlink::matches
Matches(rule, d) == rule.props = d.props

\* symlinks.iter().find_map(|dev| dev.matches(device)): the first rule that
\* matches, "" for None.
SymlinkFn(d) ==
    IF \E i \in 1..Len(Symlinks) : Matches(Symlinks[i], d)
    THEN Symlinks[CHOOSE i \in 1..Len(Symlinks) :
                    /\ Matches(Symlinks[i], d)
                    /\ \A j \in 1..(i - 1) : ~Matches(Symlinks[j], d)].path
    ELSE ""

\* HotplugDeviceSummary(syspath, devnum, devnode, symlink)
Summary(d) == [sys |-> d.sys, num |-> d.num, node |-> d.node, link |-> SymlinkFn(d)]

\* required: the root device and the device given on the command line.
Required == {HubPath, DevPath}

\* Access built from (r, w, m) in Container::device.
AccessOf(r, w, m) ==
    (IF r THEN READ ELSE 0) + (IF w THEN WRITE ELSE 0) + (IF m THEN MKNOD ELSE 0)

\* Key of DEVICE_PERM.
Key(num) == <<Character, num[1], num[2]>>

\* ------------------------------------- container operations (docker)

\* A handler threads a context through the operations it calls: the filter
\* map, the container's /dev, the operations attempted so far, the operation
\* whose error stopped it ("" while none) and the number of operations run.
\* failAt is the ordinal of the operation that fails (0: none does).
Ctx == [fmap |-> filterMap, fs |-> fs, ops |-> <<>>, err |-> "", n |-> 0]

FailPoints == 0..6

\* set_permission storing the empty access like any other.
SetPermissionStoringEmpty(map, key, access, fail) ==
    IF fail THEN [ok |-> FALSE, map |-> map]
    ELSE [ok |-> TRUE, map |-> Put(map, key, access)]

\* DeviceAccessControllerV2::set_permission: an empty access deletes the key
\* (deleting an absent key is an error of the map), anything else stores it.
SetPermission(map, key, access, fail) ==
    IF fail THEN [ok |-> FALSE, map |-> map]
    ELSE IF access = 0
         THEN IF key \in DOMAIN map
              THEN [ok |-> TRUE, map |-> Drop(map, key)]
              ELSE [ok |-> FALSE, map |-> map]
         ELSE [ok |-> TRUE, map |-> Put(map, key, access)]

\* Container::device: controller.as_mut().unwrap() panics inside
\* spawn_blocking once the controller was taken; the join error is returned.
Device(cs, num, access, failAt) ==
    IF cs.err # "" THEN cs
    ELSE IF filterOpt = "taken"
         THEN [cs EXCEPT !.n = @ + 1, !.ops = Append(@, "device"), !.err = "device"]
         ELSE LET r == SetPermission(cs.fmap, Key(num), access, cs.n + 1 = failAt)
              IN  [cs EXCEPT !.n = @ + 1,
                             !.ops = Append(@, "device"),
                             !.fmap = r.map,
                             !.err = IF r.ok THEN "" ELSE "device"]

\* Container::mknod: rm -f, mkdir -p, mknod, chown.  When it fails the old
\* entry is already removed.
Mknod(cs, node, num, failAt) ==
    IF cs.err # "" THEN cs
    ELSE IF cs.n + 1 = failAt
         THEN [cs EXCEPT !.n = @ + 1, !.ops = Append(@, "mknod"),
                         !.fs = Drop(@, node), !.err = "mknod"]
         ELSE [cs EXCEPT !.n = @ + 1, !.ops = Append(@, "mknod"),
                         !.fs = Put(@, node, [kind |-> "chr", num |-> num, target |-> ""])]

\* Container::symlink: ln -sf replaces whatever is at the link path.
Symlink(cs, source, link, failAt) ==
    IF cs.err # "" THEN cs
    ELSE IF cs.n + 1 = failAt
         THEN [cs EXCEPT !.n = @ + 1, !.ops = Append(@, "symlink"), !.err = "symlink"]
         ELSE [cs EXCEPT !.n = @ + 1, !.ops = Append(@, "symlink"),
                         !.fs = Put(@, link, [kind |-> "lnk", num |-> <<0, 0>>, target |-> source])]

\* Container::rm: rm -f.
Rm(cs, path, failAt) ==
    IF cs.err # "" THEN cs
    ELSE IF cs.n + 1 = failAt
         THEN [cs EXCEPT !.n = @ + 1, !.ops = Append(@, "rm"), !.err = "rm"]
         ELSE [cs EXCEPT !.n = @ + 1, !.ops = Append(@, "rm"), !.fs = Drop(@, path)]

\* The uevent that tells udev consumers inside the container about the
\* change.  A failed send is logged and changes nothing.
SendUevent(cs, action) ==
    IF cs.err # "" THEN cs
    ELSE [cs EXCEPT !.ops = Append(@, "uevent")]

\* An allow_device that creates the node before the filter admits it.
AllowDeviceNodeFirst(cs, summary, failAt) ==
    LET a == Mknod(cs, summary.node, summary.num, failAt)
        b == Device(a, summary.num, AccessOf(TRUE, TRUE, TRUE), failAt)
    IN  IF summary.link # "" THEN Symlink(b, summary.node, summary.link, failAt) ELSE b

\* allow_device
AllowDevice(cs, summary, failAt) ==
    LET a == Device(cs, summary.num, AccessOf(TRUE, TRUE, TRUE), failAt)
        b == Mknod(a, summary.node, summary.num, failAt)
    IN  IF summary.link # "" THEN Symlink(b, summary.node, summary.link, failAt) ELSE b

\* A deny_device that forgets the symlink.
DenyDeviceKeepingLink(cs, summary, failAt) ==
    LET a == Device(cs, summary.num, AccessOf(FALSE, FALSE, FALSE), failAt)
    IN  Rm(a, summary.node, failAt)

\* deny_device
DenyDevice(cs, summary, failAt) ==
    LET a == Device(cs, summary.num, AccessOf(FALSE, FALSE, FALSE), failAt)
        b == Rm(a, summary.node, failAt)
    IN  IF summary.link # "" THEN Rm(b, summary.link, failAt) ELSE b

\* A removal that treats the elapsed timeout like the destroy event.
RemoveWaitedIgnoringTimeout ==
    CASE removeEv = "seen" -> {[ok |-> TRUE, ev |-> "seen", cst |-> "removed"]}
      [] removeEv = "lost" -> {[ok |-> FALSE, ev |-> "lost", cst |-> cstate]}
      [] OTHER ->
            {[ok |-> TRUE, ev |-> "seen", cst |-> "removed"],
             [ok |-> FALSE, ev |-> "lost", cst |-> cstate],
             [ok |-> TRUE, ev |-> "pending", cst |-> cstate]}

\* Container::remove: the manual removal is requested with its errors
\* ignored, then the destroy event is awaited (with the timeout), and only
\* after it was seen is the controller taken and stopped.
RemoveWaited ==
    CASE removeEv = "seen" -> {[ok |-> TRUE, ev |-> "seen", cst |-> "removed"]}
      [] removeEv = "lost" -> {[ok |-> FALSE, ev |-> "lost", cst |-> cstate]}
      [] OTHER ->
            {[ok |-> TRUE, ev |-> "seen", cst |-> "removed"],
             [ok |-> FALSE, ev |-> "lost", cst |-> cstate]}
            \cup {[ok |-> FALSE, ev |-> "pending", cst |-> c] :
                      c \in {cstate} \cup (IF cstate = "running" THEN {"exited"} ELSE {})}

\* DeviceAccessControllerV2::stop: CgroupDevice::from_pin(&self.pin)?.unpin()?
StopOutcomes == {[ok |-> TRUE, pin |-> "none"], [ok |-> FALSE, pin |-> pin]}

RemoveOutcomes ==
    UNION { IF ~w.ok
            THEN {[ret |-> "err", ev |-> w.ev, cst |-> w.cst, fopt |-> filterOpt, pin |-> pin]}
            ELSE IF filterOpt = "taken"
                 THEN {[ret |-> "panic", ev |-> w.ev, cst |-> w.cst, fopt |-> filterOpt, pin |-> pin]}
                 ELSE {[ret |-> IF st.ok THEN "ok" ELSE "err", ev |-> w.ev, cst |-> w.cst,
                        fopt |-> "taken", pin |-> st.pin] : st \in StopOutcomes}
          : w \in RemoveWaited }

\* ------------------------------------------ hotplug/mod.rs: hotplug()

\* The state in which the run loop of hotplug() starts: the driver is built
\* (own program attached and pinned, the runtime's programs detached), the
\* container runs, the live map is empty.
InitHandle ==
    /\ apc = "done"
    /\ runtimeProgs = ProgIds
    /\ attached = {Own}
    /\ existing = <<>>
    /\ pin = "own"
    /\ aerr = ""
    /\ filterMap = <<>> /\ filterOpt = "some" /\ fs = <<>>
    /\ cstate = "running" /\ cstatus = 0 /\ removeEv = "pending"

InitHotplug ==
    /\ entry = "hotplug"
    /\ InitHandle
    /\ phase = "enum" /\ enumerated \in Snapshots /\ nlive = 0 /\ startedCount = 0
    /\ hpc = "run" /\ devices = <<>> /\ ops = <<>> /\ opErr = ""
    /\ detached = NoSummary /\ lastEvent = "none" /\ startCb = 0 /\ result = -1
    /\ cpc = "idle" /\ notifier = "some" /\ notified = 0 /\ kills = 0
    /\ killCalls = 0 /\ hubDetached = FALSE /\ detachAlive = FALSE
    /\ watch = "pending"
    /\ exitCode = -1
    /\ ppc = "idle" /\ parentGot = "" /\ parentExit = -1
    /\ mpc = "idle" /\ present = {} /\ sockq = <<>> /\ seen = <<>>
    /\ scanned = <<>> /\ mlog = <<>> /\ unheard = {} /\ readable = FALSE
    /\ nkern = 0
    /\ UnitIdle

\* A match arm that logs the error of a per-device operation and goes on.
FinishHandlerLogging(kind, cs, devs, det) ==
    /\ lastEvent' = kind
    /\ devices' = devs
    /\ detached' = det
    /\ filterMap' = cs.fmap
    /\ fs' = cs.fs
    /\ ops' = cs.ops
    /\ opErr' = cs.err
    /\ hpc' = "run"
    /\ UNCHANGED <<startCb, result, filterOpt, cstate, cstatus, removeEv,
                   attachVars, entry, createVars>>

\* The end of a match arm that ran per-device operations: `?` returns the
\* first error, otherwise the loop goes on.
FinishHandler(kind, cs, devs, det) ==
    /\ lastEvent' = kind
    /\ devices' = devs
    /\ detached' = det
    /\ filterMap' = cs.fmap
    /\ fs' = cs.fs
    /\ ops' = cs.ops
    /\ opErr' = cs.err
    /\ hpc' = IF cs.err = "" THEN "run" ELSE "failed"
    /\ UNCHANGED <<startCb, result, filterOpt, cstate, cstatus, removeEv,
                   attachVars, entry, createVars>>

\* The end of a match arm that called container.remove(..).await?; `after`
\* is where the arm goes when the removal succeeded.
FinishRemove(kind, o, devs, det, after) ==
    /\ lastEvent' = kind
    /\ devices' = devs
    /\ detached' = det
    /\ ops' = <<"remove">>
    /\ opErr' = IF o.ret = "ok" THEN "" ELSE "remove"
    /\ hpc' = CASE o.ret = "ok" -> after
                [] o.ret = "err" -> "failed"
                [] OTHER -> "panicked"
    /\ filterOpt' = o.fopt
    /\ pin' = o.pin
    /\ cstate' = o.cst
    /\ removeEv' = o.ev
    /\ UNCHANGED <<filterMap, fs, startCb, result, cstatus, apc, attached,
                   existing, aerr, runtimeProgs, entry, createVars>>

\* An event the stream filtered out never reaches the loop.
NoEvent ==
    UNCHANGED <<loopVars, handleVars, attachVars, entry, createVars>>

\* An Add arm that attaches the new device on top of the old one.
HandleAddKeepingOld(d) ==
    \E failAt \in FailPoints :
        LET summary == Summary(d)
            b == AllowDevice(Ctx, summary, failAt)
            c == SendUevent(b, "add")
        IN  FinishHandler("add", c,
                          IF c.err = "" THEN Put(devices, d.sys, summary)
                                        ELSE Drop(devices, d.sys),
                          NoSummary)

\* Ok(Event::UdevAdd(device, devnum, devnode))
HandleAdd(d) ==
    \E failAt \in FailPoints :
        LET summary == Summary(d)
            hadOld == d.sys \in DOMAIN devices
            a == IF hadOld THEN DenyDevice(Ctx, devices[d.sys], failAt) ELSE Ctx
            b == AllowDevice(a, summary, failAt)
            c == SendUevent(b, "add")
        IN  FinishHandler("add", c,
                          IF c.err = "" THEN Put(devices, d.sys, summary)
                                        ELSE Drop(devices, d.sys),
                          NoSummary)

\* A Remove arm that reverses the device whether or not it is in the map.
HandleRemoveDenying(d) ==
    IF d.sys \in Required /\ d.sys \in DOMAIN devices
    THEN \E o \in RemoveOutcomes :
             FinishRemove("remove", o, Drop(devices, d.sys), devices[d.sys], "run")
    ELSE \E failAt \in FailPoints :
             LET a == DenyDevice(Ctx, Summary(d), failAt)
                 b == SendUevent(a, "remove")
             IN  FinishHandler("remove", b, Drop(devices, d.sys), Summary(d))

\* Ok(Event::UdevRemove(device))
HandleRemove(d) ==
    IF d.sys \notin DOMAIN devices
    THEN FinishHandler("remove", Ctx, devices, NoSummary)
    ELSE IF d.sys \in Required
         THEN \E o \in RemoveOutcomes :
                  FinishRemove("remove", o, Drop(devices, d.sys), devices[d.sys], "run")
         ELSE \E failAt \in FailPoints :
                  LET a == DenyDevice(Ctx, devices[d.sys], failAt)
                      b == SendUevent(a, "remove")
                  IN  FinishHandler("remove", b, Drop(devices, d.sys), devices[d.sys])

Dispatch(e) ==
    CASE e.t = "add" -> HandleAdd(e.d)
      [] e.t = "remove" -> HandleRemove(e.d)
      [] OTHER -> NoEvent

\* start_stream: the enumerator's devices, mapped to adds.
SnapshotEvent ==
    /\ entry = "hotplug" /\ hpc = "run"
    /\ phase = "enum" /\ enumerated # <<>>
    /\ enumerated' = Tail(enumerated)
    /\ UNCHANGED <<phase, nlive, startedCount>>
    /\ Dispatch(MapFn("add", Head(enumerated)))

\* A stream that yields Started without draining the enumerator first.
StartedEventEarly ==
    /\ entry = "hotplug" /\ hpc = "run"
    /\ phase = "enum"
    /\ phase' = "live"
    /\ startedCount' = startedCount + 1
    /\ UNCHANGED <<enumerated, nlive>>
    /\ startCb' = startCb + 1
    /\ ops' = <<>> /\ opErr' = "" /\ detached' = NoSummary
    /\ lastEvent' = "started"
    /\ UNCHANGED <<hpc, devices, result, handleVars, attachVars, entry, createVars>>

\* yield Event::Started, then Ok(Event::Started) in the loop.
StartedEvent ==
    /\ entry = "hotplug" /\ hpc = "run"
    /\ phase = "enum" /\ enumerated = <<>>
    /\ phase' = "live"
    /\ startedCount' = startedCount + 1
    /\ UNCHANGED <<enumerated, nlive>>
    /\ IF \A r \in Required : r \in DOMAIN devices
       THEN /\ startCb' = startCb + 1
            /\ ops' = <<>> /\ opErr' = "" /\ detached' = NoSummary
            /\ lastEvent' = "started"
            /\ UNCHANGED <<hpc, devices, result, handleVars, attachVars, entry, createVars>>
       ELSE \E o \in RemoveOutcomes : FinishRemove("started", o, devices, NoSummary, "run")

\* monitor_stream: events of the udev monitor, mapped by map_fn.
MonitorEvent ==
    /\ entry = "hotplug" /\ hpc = "run"
    /\ phase = "live" /\ nlive < MaxEvents
    /\ nlive' = nlive + 1
    /\ UNCHANGED <<phase, enumerated, startedCount>>
    /\ \E t \in {"add", "remove", "change"}, d \in Universe : Dispatch(MapFn(t, d))

\* udev_stream chains monitor_stream behind start_stream, and monitor_stream
\* calls MonitorBuilder::listen when it is first polled: while start_stream
\* runs there is no socket, and the uevent of a device that is unplugged is
\* received by nobody.
UnplugBeforeListen ==
    /\ entry = "hotplug" /\ hpc = "run"
    /\ phase = "enum" /\ nkern < MaxKernel
    /\ nkern' = nkern + 1
    /\ \E k \in DOMAIN devices : unheard' = unheard \cup {k}
    /\ UNCHANGED <<streamVars, loopVars, handleVars, attachVars, entry>>
    /\ UNCHANGED <<cpc, notifier, notified, kills, killCalls, hubDetached, detachAlive,
                   watch, exitCode, parentVars, mpc, present, sockq, readable, seen,
                   scanned, mlog, unitVars>>

\* stop_stream: container.wait() resolved; Ok(Event::Stopped(status)) =>
\* return Ok(status).
StoppedEvent ==
    /\ entry = "hotplug" /\ hpc = "run"
    /\ cstate # "running"
    /\ hpc' = "done"
    /\ result' = cstatus
    /\ lastEvent' = "stopped"
    /\ UNCHANGED <<devices, ops, opErr, detached, startCb, streamVars, handleVars,
                   attachVars, entry, createVars>>

\* Err(err) => { container.remove(true).await?; return Err(err.into()) }
StreamError ==
    /\ entry = "hotplug" /\ hpc = "run"
    /\ UNCHANGED streamVars
    /\ \E o \in RemoveOutcomes : FinishRemove("error", o, devices, NoSummary, "failed")

\* The container's init ends on its own.
ContainerExit ==
    /\ entry \in {"hotplug", "create"}
    /\ hpc \in {"run", "idle"} /\ cpc \in {"new", "loop", "kill", "wait", "idle"}
    /\ cstate = "running"
    /\ cstate' = "exited"
    /\ cstatus' \in Statuses
    /\ UNCHANGED <<filterMap, filterOpt, fs, removeEv, streamVars, loopVars,
                   attachVars, entry, createVars>>

\* docker run --rm removes an exited container; the destroy event follows.
DestroyEvent ==
    /\ entry = "hotplug" /\ hpc = "run"
    /\ cstate = "exited" /\ removeEv = "pending"
    /\ cstate' = "removed"
    /\ removeEv' = "seen"
    /\ UNCHANGED <<filterMap, filterOpt, fs, cstatus, streamVars, loopVars,
                   attachVars, entry, createVars>>

NextHotplug ==
    \/ UnplugBeforeListen
    \/ SnapshotEvent
    \/ StartedEvent
    \/ MonitorEvent
    \/ StoppedEvent
    \/ StreamError
    \/ ContainerExit
    \/ DestroyEvent

\* ------------------------------------------- main.rs: exit codes, frames

\* std::process::ExitCode::SUCCESS and ::FAILURE as main() returns them.
ExitSuccess == 0

ExitFailure == 1

\* --root-unplugged-exit-code, default value.
RootUnpluggedExitCode == 5

\* What create() leaves untouched in every step.
CreateFrameNoMon ==
    UNCHANGED <<filterMap, filterOpt, fs, removeEv, loopVars,
                apc, attached, existing, aerr, runtimeProgs, entry, parentVars, unitVars>>

\* The same for a step that does not read the device monitor.
CreateFrame ==
    /\ CreateFrameNoMon
    /\ UNCHANGED <<streamVars, monVars>>

\* An `?` inside create(): container_keep is a ManuallyDrop and is not
\* dropped; main() logs the error and returns ExitCode::FAILURE.
CreateFail ==
    /\ cpc' = "failed"
    /\ exitCode' = ExitFailure

\* ------------------------------------ dev/device.rs, dev/monitor.rs

\* Device::from_udev: the udev device and the cached DevNode, <<>> for None.
DeviceFromUdev(d) ==
    [udev |-> d,
     devnode |-> IF d.node # ""
                 THEN <<[path |-> d.node, ty |-> Character, devnum |-> d.num]>>
                 ELSE <<>>]

\* The udev devices the kernel can have while the monitor runs, in the order
\* scan_devices lists them.
ScanOrder == <<DevHub, DevTty, DevTtyB, DevOther>>

MonUniverse == {ScanOrder[i] : i \in DOMAIN ScanOrder}

\* What is plugged in when the supervisor starts.
StartSets == {{DevHub}, {DevHub, DevTty}, {DevHub, DevTty, DevOther}}

\* A udev device as a remove uevent carries it: the device number and the
\* devnode are no longer available.
Gone(d) == [d EXCEPT !.num = <<0, 0>>, !.node = ""]

\* The monitor socket exists from MonitorBuilder::listen on.
SocketOpen == mpc \in {"scan", "ready"}

\* The kernel broadcasts a uevent; only an open socket queues it.
Deliver(t, d) == IF SocketOpen THEN Append(sockq, [t |-> t, d |-> d]) ELSE sockq

\* The socket becomes readable with the uevent it queues.
Wake == IF SocketOpen THEN TRUE ELSE readable

\* What a kernel step leaves untouched.
KernelFrame ==
    /\ entry \in {"create", "monitor"} /\ cpc \in {"new", "loop"}
    /\ nkern < (IF entry = "create" THEN MaxKernel ELSE MaxEvents)
    /\ nkern' = nkern + 1
    /\ UNCHANGED <<streamVars, mpc, seen, scanned, mlog>>
    /\ readable' = Wake
    /\ unheard' = unheard \cup
           {scanned[i].udev.sys : i \in {j \in DOMAIN scanned :
               ~SocketOpen /\ (\E d \in present \ present' : d.sys = scanned[j].udev.sys)}}
    /\ UNCHANGED <<cpc, notifier, notified, kills, killCalls, hubDetached, detachAlive,
                   watch, exitCode, parentVars, loopVars, handleVars, attachVars, entry,
                   unitVars>>

\* A device is plugged in.
KernelAdd ==
    /\ KernelFrame
    /\ \E d \in MonUniverse :
           /\ \A q \in present : q.sys # d.sys
           /\ present' = present \cup {d}
           /\ sockq' = Deliver("add", d)

\* A device is unplugged.
KernelRemove ==
    /\ KernelFrame
    /\ \E d \in present :
           /\ present' = present \ {d}
           /\ sockq' = Deliver("remove", Gone(d))

\* A uevent about a device that stays: a change, or an add replayed by a
\* udev trigger.
KernelChange ==
    /\ KernelFrame
    /\ \E d \in present, t \in {"change", "add"} :
           /\ sockq' = Deliver(t, d)
           /\ UNCHANGED present

\* A `?` inside DeviceMonitor::new: no monitor; HotPlug::new and create()
\* return the error.
MonFail ==
    /\ mpc' = "failed"
    /\ cpc' = "failed"
    /\ exitCode' = IF entry = "create" THEN ExitFailure ELSE exitCode

\* DeviceMonitor::new, first half: MonitorBuilder::new()?.listen()?
MonListen ==
    /\ entry \in {"create", "monitor"} /\ cpc = "new" /\ mpc = "new"
    /\ \/ mpc' = "scan" /\ UNCHANGED <<cpc, exitCode>>
       \/ MonFail
    /\ UNCHANGED <<present, sockq, readable, seen, scanned, mlog, nkern, unheard,
                   streamVars>>
    /\ UNCHANGED <<notifier, notified, kills, killCalls, hubDetached, detachAlive, watch,
                   pin, cstate, cstatus>>
    /\ CreateFrameNoMon

\* scan_devices()?.filter(starts_with(&root)).map(Device::from_udev)
Enumerate(devs) ==
    LET under == SelectSeq(ScanOrder,
                           LAMBDA d : d \in devs /\ StartsWith(d.sys, HubPath))
    IN  [i \in DOMAIN under |-> DeviceFromUdev(under[i])]

\* A monitor that starts with an empty seen map.
SeenOfNothing(enum) == <<>>

\* for device in &enumerated { seen.insert(syspath, device.clone()) }
SeenOf(enum) ==
    [k \in {enum[i].udev.sys : i \in DOMAIN enum} |->
        enum[CHOOSE i \in DOMAIN enum : enum[i].udev.sys = k]]

\* DeviceMonitor::new, second half: the enumeration and the seen map; then
\* HotPlug::new returns and create() enters its loop.
MonScan ==
    /\ entry \in {"create", "monitor"} /\ cpc = "new" /\ mpc = "scan"
    /\ \/ /\ enumerated' = Enumerate(present)
          /\ scanned' = enumerated'
          /\ seen' = SeenOf(enumerated')
          /\ mpc' = "ready"
          /\ cpc' = "loop"
          /\ UNCHANGED exitCode
       \/ /\ MonFail
          /\ UNCHANGED <<enumerated, scanned, seen>>
    /\ UNCHANGED <<present, sockq, readable, mlog, nkern, unheard, phase, nlive,
                   startedCount>>
    /\ UNCHANGED <<notifier, notified, kills, killCalls, hubDetached, detachAlive, watch,
                   pin, cstate, cstatus>>
    /\ CreateFrameNoMon

\* No DeviceEvent: try_read returned Ok(None).
NoDeviceEvent == [t |-> "none"]

\* A try_read whose Remove carries the device of the uevent.
RECURSIVE ReadSocketUncached(_, _)
ReadSocketUncached(q, sn) ==
    IF q = <<>>
    THEN [ev |-> NoDeviceEvent, q |-> q, seen |-> sn]
    ELSE LET e == Head(q)
         IN  IF e.t = "add" /\ StartsWith(e.d.sys, HubPath)
             THEN IF e.d.sys \in DOMAIN sn
                  THEN ReadSocketUncached(Tail(q), sn)
                  ELSE [ev |-> [t |-> "add", d |-> DeviceFromUdev(e.d)],
                        q |-> Tail(q),
                        seen |-> Put(sn, e.d.sys, DeviceFromUdev(e.d))]
             ELSE IF e.t = "remove"
                  THEN IF e.d.sys \in DOMAIN sn
                       THEN [ev |-> [t |-> "remove", d |-> DeviceFromUdev(e.d)],
                             q |-> Tail(q),
                             seen |-> Drop(sn, e.d.sys)]
                       ELSE ReadSocketUncached(Tail(q), sn)
                  ELSE ReadSocketUncached(Tail(q), sn)

\* The loop of try_read over the socket: an Add under the root is returned
\* unless its syspath is in seen, a Remove is returned with the cached Device
\* if its syspath is in seen, everything else is skipped; Ok(None) when the
\* socket has no more uevents.
RECURSIVE ReadSocket(_, _)
ReadSocket(q, sn) ==
    IF q = <<>>
    THEN [ev |-> NoDeviceEvent, q |-> q, seen |-> sn]
    ELSE LET e == Head(q)
         IN  IF e.t = "add" /\ StartsWith(e.d.sys, HubPath)
             THEN IF e.d.sys \in DOMAIN sn
                  THEN ReadSocket(Tail(q), sn)
                  ELSE [ev |-> [t |-> "add", d |-> DeviceFromUdev(e.d)],
                        q |-> Tail(q),
                        seen |-> Put(sn, e.d.sys, DeviceFromUdev(e.d))]
             ELSE IF e.t = "remove"
                  THEN IF e.d.sys \in DOMAIN sn
                       THEN [ev |-> [t |-> "remove", d |-> sn[e.d.sys]],
                             q |-> Tail(q),
                             seen |-> Drop(sn, e.d.sys)]
                       ELSE ReadSocket(Tail(q), sn)
                  ELSE ReadSocket(Tail(q), sn)

\* A try_read that reads the socket before the enumerated devices.
TryReadSocketFirst(enum, q, sn) ==
    LET r == ReadSocket(q, sn)
    IN  IF r.ev # NoDeviceEvent \/ enum = <<>>
        THEN [ev |-> r.ev, enum |-> enum, q |-> r.q, seen |-> r.seen]
        ELSE [ev |-> [t |-> "add", d |-> Head(enum)], enum |-> Tail(enum),
              q |-> r.q, seen |-> r.seen]

\* DeviceMonitor::try_read: the enumerated devices first, then the socket.
TryRead(enum, q, sn) ==
    IF enum # <<>>
    THEN [ev |-> [t |-> "add", d |-> Head(enum)], enum |-> Tail(enum),
          q |-> q, seen |-> sn]
    ELSE LET r == ReadSocket(q, sn)
         IN  [ev |-> r.ev, enum |-> enum, q |-> r.q, seen |-> r.seen]

\* Stream::poll_next: try_read at once while devices are enumerated, else
\* once the socket is readable; Ok(None) clears the readiness and the poll
\* is Pending.
PollNext == TryRead(enumerated, sockq, seen)

\* poll_next goes on at once while devices are enumerated, and otherwise
\* when poll_read_ready reports the socket readable.
StreamReady == enumerated # <<>> \/ readable

\* A read that leaves the seen map as it was.
MonTakeKeepingSeen(r) ==
    /\ enumerated' = r.enum
    /\ sockq' = r.q
    /\ seen' = seen
    /\ mlog' = IF r.ev = NoDeviceEvent THEN mlog ELSE Append(mlog, r.ev)
    /\ UNCHANGED <<mpc, present, scanned, nkern, unheard, nlive, startedCount>>

\* The monitor state after a read, and the event in the log of what the
\* consumer got.
MonTake(r) ==
    /\ enumerated' = r.enum
    /\ sockq' = r.q
    /\ seen' = r.seen
    /\ mlog' = IF r.ev = NoDeviceEvent THEN mlog ELSE Append(mlog, r.ev)
    /\ UNCHANGED <<mpc, present, scanned, nkern, unheard, nlive, startedCount>>

\* HotPlug::run reads the monitor: the enumerated devices before it emits
\* Initialized, the live stream after it.
RunReads ==
    /\ mpc = "ready"
    /\ entry = "create" => (enumerated # <<>> \/ phase = "live")

\* HotPlug::run emits Initialized at the transition from the initial
\* snapshot to live monitoring.
RunInitialized ==
    /\ mpc = "ready"
    /\ enumerated = <<>> /\ phase = "enum"

\* devices.iter().any(|hub| dev.syspath() == hub) for a Detach
IsHubDetach(ev) == ev.t = "remove" /\ ev.d.udev.sys = HubPath

\* poll_next found only uevents that try_read skips: the stream is Pending
\* and the socket is drained.
MonPending ==
    /\ entry \in {"create", "monitor"} /\ cpc = "loop" /\ RunReads
    /\ StreamReady
    /\ PollNext.ev = NoDeviceEvent
    /\ MonTake(PollNext)
    /\ readable' = FALSE
    /\ UNCHANGED phase
    /\ UNCHANGED <<cpc, notifier, notified, kills, killCalls, hubDetached, detachAlive,
                   watch, exitCode, pin, cstate, cstatus>>
    /\ CreateFrameNoMon

\* A poll_next that clears the readiness after it has returned an event.
MonYieldClearing ==
    /\ entry = "monitor" /\ cpc = "loop" /\ RunReads
    /\ StreamReady
    /\ PollNext.ev # NoDeviceEvent
    /\ MonTake(PollNext)
    /\ readable' = FALSE
    /\ UNCHANGED phase
    /\ UNCHANGED <<cpc, notifier, notified, kills, killCalls, hubDetached, detachAlive,
                   watch, exitCode, pin, cstate, cstatus>>
    /\ CreateFrameNoMon

\* poll_next returned Poll::Ready(Some(Ok(event))) to a consumer of the
\* stream; the readiness guard is dropped without clear_ready.
MonYield ==
    /\ entry = "monitor" /\ cpc = "loop" /\ RunReads
    /\ StreamReady
    /\ PollNext.ev # NoDeviceEvent
    /\ MonTake(PollNext)
    /\ UNCHANGED readable
    /\ UNCHANGED phase
    /\ UNCHANGED <<cpc, notifier, notified, kills, killCalls, hubDetached, detachAlive,
                   watch, exitCode, pin, cstate, cstatus>>
    /\ CreateFrameNoMon

\* The monitor on its own, with a consumer that polls the stream.
InitMonitor ==
    /\ entry = "monitor"
    /\ InitHandle
    /\ phase = "enum" /\ enumerated = <<>> /\ nlive = 0 /\ startedCount = 0
    /\ hpc = "idle" /\ devices = <<>> /\ ops = <<>> /\ opErr = ""
    /\ detached = NoSummary /\ lastEvent = "none" /\ startCb = 0 /\ result = -1
    /\ cpc = "new" /\ notifier = "some" /\ notified = 0 /\ kills = 0
    /\ killCalls = 0 /\ hubDetached = FALSE /\ detachAlive = FALSE
    /\ watch = "pending"
    /\ exitCode = -1
    /\ ppc = "idle" /\ parentGot = "" /\ parentExit = -1
    /\ mpc = "new" /\ present \in StartSets /\ sockq = <<>> /\ seen = <<>>
    /\ scanned = <<>> /\ mlog = <<>> /\ unheard = {} /\ readable = FALSE
    /\ nkern = 0
    /\ UnitIdle

NextMonitor ==
    \/ KernelAdd
    \/ KernelRemove
    \/ KernelChange
    \/ MonListen
    \/ MonScan
    \/ MonPending
    \/ MonYield

\* ---------------------------------------------- main.rs: create(), main()

InitCreate ==
    /\ entry = "create"
    /\ InitHandle
    /\ phase = "enum" /\ enumerated = <<>> /\ nlive = 0 /\ startedCount = 0
    /\ hpc = "idle" /\ devices = <<>> /\ ops = <<>> /\ opErr = ""
    /\ detached = NoSummary /\ lastEvent = "none" /\ startCb = 0 /\ result = -1
    /\ cpc = "new" /\ notifier = "some" /\ notified = 0 /\ kills = 0
    /\ killCalls = 0 /\ hubDetached = FALSE /\ detachAlive = FALSE
    /\ watch = "pending"
    /\ exitCode = -1
    /\ ppc = "read" /\ parentGot = "" /\ parentExit = -1
    /\ mpc = "new" /\ present \in StartSets /\ sockq = <<>> /\ seen = <<>>
    /\ scanned = <<>> /\ mlog = <<>> /\ unheard = {} /\ readable = FALSE
    /\ nkern = 0
    /\ UnitIdle

\* A loop that is told Initialized while devices are still enumerated.
CrInitializedEarly ==
    /\ entry = "create" /\ cpc = "loop"
    /\ mpc = "ready" /\ phase = "enum"
    /\ phase' = "live"
    /\ startedCount' = startedCount + 1
    /\ IF notifier = "none"
       THEN /\ CreateFail
            /\ UNCHANGED <<notifier, notified>>
       ELSE /\ notifier' = "none"
            /\ \/ /\ notified' = notified + 1
                  /\ UNCHANGED <<cpc, exitCode>>
               \/ /\ CreateFail
                  /\ UNCHANGED notified
    /\ UNCHANGED <<kills, killCalls, hubDetached, detachAlive, watch, pin, cstate, cstatus>>
    /\ UNCHANGED <<enumerated, nlive, monVars>>
    /\ CreateFrameNoMon

\* Event::Initialized => { notifier.take().context(..)?; write(notifier, &[0])? }
CrInitialized ==
    /\ entry = "create" /\ cpc = "loop"
    /\ RunInitialized
    /\ phase' = "live"
    /\ startedCount' = startedCount + 1
    /\ IF notifier = "none"
       THEN /\ CreateFail
            /\ UNCHANGED <<notifier, notified>>
       ELSE /\ notifier' = "none"
            /\ \/ /\ notified' = notified + 1
                  /\ UNCHANGED <<cpc, exitCode>>
               \/ /\ CreateFail
                  /\ UNCHANGED notified
    /\ UNCHANGED <<kills, killCalls, hubDetached, detachAlive, watch, pin, cstate, cstatus>>
    /\ UNCHANGED <<enumerated, nlive, monVars>>
    /\ CreateFrameNoMon

\* Event::Attach(_), and Event::Detach(dev) of a device that is no root
\* device: `_ => {}`.
CrOther ==
    /\ entry = "create" /\ cpc = "loop" /\ RunReads
    /\ StreamReady
    /\ PollNext.ev # NoDeviceEvent
    /\ ~IsHubDetach(PollNext.ev)
    /\ MonTake(PollNext)
    /\ UNCHANGED readable
    /\ UNCHANGED phase
    /\ UNCHANGED <<cpc, notifier, notified, kills, killCalls, hubDetached, detachAlive,
                   watch, exitCode, pin, cstate, cstatus>>
    /\ CreateFrameNoMon

\* Event::Detach(dev) if devices.iter().any(|hub| dev.syspath() == hub)
CrDetachHub ==
    /\ entry = "create" /\ cpc = "loop" /\ RunReads
    /\ StreamReady
    /\ IsHubDetach(PollNext.ev)
    /\ MonTake(PollNext)
    /\ UNCHANGED readable
    /\ UNCHANGED phase
    /\ hubDetached' = TRUE
    /\ detachAlive' = (cstate = "running")
    /\ cpc' = "kill"
    /\ UNCHANGED <<notifier, notified, kills, killCalls, watch, exitCode,
                   pin, cstate, cstatus>>
    /\ CreateFrameNoMon

\* A kill whose error is propagated with `?`.
CrKillChecked ==
    /\ entry = "create" /\ cpc = "kill"
    /\ killCalls' = killCalls + 1
    /\ \/ /\ kills' = kills + 1
          /\ cpc' = "wait"
          /\ UNCHANGED exitCode
       \/ /\ cstate # "running"
          /\ CreateFail
          /\ UNCHANGED kills
    /\ UNCHANGED <<notifier, notified, hubDetached, detachAlive, watch, pin, cstate, cstatus>>
    /\ CreateFrame

\* let _ = container.kill(Signal::KILL).await: kill_process delivers the
\* signal, or fails when the init process is gone; either way the wait
\* comes next.
CrKill ==
    /\ entry = "create" /\ cpc = "kill"
    /\ killCalls' = killCalls + 1
    /\ kills' \in {kills + 1} \cup (IF cstate = "running" THEN {} ELSE {kills})
    /\ cpc' = "wait"
    /\ UNCHANGED <<notifier, notified, hubDetached, detachAlive, watch, exitCode,
                   pin, cstate, cstatus>>
    /\ CreateFrame

\* A wait that returns only for the value true and sleeps on a channel whose
\* sender is gone.
CrWaitForTrueOnly ==
    /\ entry = "create" /\ cpc = "wait"
    /\ watch = "true"
    /\ cpc' = "drop" /\ UNCHANGED exitCode
    /\ UNCHANGED <<notifier, notified, kills, killCalls, hubDetached, detachAlive, watch,
                   pin, cstate, cstatus>>
    /\ CreateFrame

\* container.wait().await?: wait_for(|state| *state) resolves once the
\* channel holds true, and fails once the sender is gone without it.
CrWait ==
    /\ entry = "create" /\ cpc = "wait"
    /\ watch # "pending"
    /\ IF watch = "true"
       THEN cpc' = "drop" /\ UNCHANGED exitCode
       ELSE CreateFail
    /\ UNCHANGED <<notifier, notified, kills, killCalls, hubDetached, detachAlive, watch,
                   pin, cstate, cstatus>>
    /\ CreateFrame

\* A Stopped arm that goes round the loop again.
CrStoppedContinuing ==
    /\ entry = "create" /\ cpc = "loop"
    /\ watch = "true"
    /\ UNCHANGED <<cpc, notifier, notified, kills, killCalls, hubDetached, detachAlive,
                   watch, exitCode, pin, cstate, cstatus>>
    /\ CreateFrame

\* container_stream: container.wait().await? resolved, Event::Stopped => break
CrStopped ==
    /\ entry = "create" /\ cpc = "loop"
    /\ watch = "true"
    /\ cpc' = "drop"
    /\ UNCHANGED <<notifier, notified, kills, killCalls, hubDetached, detachAlive, watch,
                   exitCode, pin, cstate, cstatus>>
    /\ CreateFrame

\* stream.try_next().await?.context("No more events")?: an error of the
\* hotplug stream or of the container stream, or the end of both.
CrStreamError ==
    /\ entry = "create" /\ cpc = "loop"
    /\ CreateFail
    /\ UNCHANGED <<notifier, notified, kills, killCalls, hubDetached, detachAlive, watch,
                   pin, cstate, cstatus>>
    /\ CreateFrame

\* The destructor of the device access controller removes the pin file.
DropController == "none"

\* drop(ManuallyDrop::into_inner(container_keep)); Ok(()): the last
\* references to the container go, main() returns ExitCode::SUCCESS.
CrReturn ==
    /\ entry = "create" /\ cpc = "drop"
    /\ pin' = DropController
    /\ cpc' = "exited"
    /\ exitCode' = ExitSuccess
    /\ UNCHANGED <<notifier, notified, kills, killCalls, hubDetached, detachAlive, watch,
                   cstate, cstatus>>
    /\ CreateFrame

\* What reading cgroup.events can give: the populated line, or an IO error
\* once the cgroup has been deleted, which needs it to be empty.
CgroupEvents ==
    IF cstate = "running" THEN {"populated 1"} ELSE {"populated 0", "deleted"}

\* CgroupEventNotifier::populated: Ok(line.ends_with('1')) for the populated
\* line, Ok(false) when the seek or the read fails.
Populated(f) == f = "populated 1"

\* A watcher that takes its first wake-up for the end of the container.
WatchResolveEager ==
    /\ entry = "create" /\ cpc \in {"new", "loop", "kill", "wait"}
    /\ watch = "pending"
    /\ watch' = "true"
    /\ UNCHANGED <<cpc, notifier, notified, kills, killCalls, hubDetached, detachAlive,
                   exitCode, pin, cstate, cstatus>>
    /\ CreateFrame

\* The task spawned in Container::new: notifier.wait() returned Ok because
\* populated() returned false, send.send_replace(true).
WatchResolve ==
    /\ entry = "create" /\ cpc \in {"new", "loop", "kill", "wait"}
    /\ watch = "pending"
    /\ \E f \in CgroupEvents : ~Populated(f)
    /\ watch' = "true"
    /\ UNCHANGED <<cpc, notifier, notified, kills, killCalls, hubDetached, detachAlive,
                   exitCode, pin, cstate, cstatus>>
    /\ CreateFrame

\* notifier.wait() returned Err: the task ends and the sender is dropped.
WatchFail ==
    /\ entry = "create" /\ cpc \in {"new", "loop", "kill", "wait"}
    /\ watch = "pending"
    /\ watch' = "closed"
    /\ UNCHANGED <<cpc, notifier, notified, kills, killCalls, hubDetached, detachAlive,
                   exitCode, pin, cstate, cstatus>>
    /\ CreateFrame

\* The child is killed by a signal: it ends without an exit code and its
\* pipe end is closed by the kernel.
CrKilled ==
    /\ entry = "create" /\ cpc \in {"new", "loop", "kill", "wait", "drop"}
    /\ cpc' = "killed"
    /\ UNCHANGED <<notifier, notified, kills, killCalls, hubDetached, detachAlive, watch,
                   exitCode, pin, cstate, cstatus>>
    /\ CreateFrame

\* What the parent leaves untouched.
ParentFrame ==
    UNCHANGED <<cpc, notifier, notified, kills, killCalls, hubDetached, detachAlive,
                watch, exitCode, monVars, handleVars, streamVars, loopVars, attachVars,
                entry, unitVars>>

\* The write end of the pipe is closed: the child dropped the notifier after
\* its write, or the child process has ended.
PipeClosed == notifier = "none" \/ cpc \in {"exited", "failed", "killed"}

\* A parent that takes the end of the pipe for the notification.
ParentReadIgnoringEof ==
    /\ entry = "create" /\ ppc = "read"
    /\ notified > 0 \/ PipeClosed
    /\ parentGot' = IF notified > 0 THEN "byte" ELSE "eof"
    /\ ppc' = "exited"
    /\ parentExit' = ExitSuccess
    /\ ParentFrame

\* Some(pid) => { drop(child); if parent.read(&mut [0])? == 0 { exit(..) } }
\* and Ok(()) after the match: the read returns the byte, or 0 at the end of
\* the pipe, or fails.
ParentRead ==
    /\ entry = "create" /\ ppc = "read"
    /\ \/ /\ notified > 0
          /\ parentGot' = "byte"
          /\ ppc' = "exited"
          /\ parentExit' = ExitSuccess
       \/ /\ notified = 0 /\ PipeClosed
          /\ parentGot' = "eof"
          /\ ppc' = "join"
          /\ UNCHANGED parentExit
       \/ /\ parentGot' = "error"
          /\ ppc' = "exited"
          /\ parentExit' = ExitFailure
    /\ ParentFrame

\* std::process::exit(pid.join()?.code().unwrap_or(1) as _): the child's exit
\* code, 1 when it has none.
ParentJoin ==
    /\ entry = "create" /\ ppc = "join"
    /\ cpc \in {"exited", "failed", "killed"}
    /\ ppc' = "exited"
    /\ parentExit' = IF cpc = "killed" THEN ExitFailure ELSE exitCode
    /\ UNCHANGED parentGot
    /\ ParentFrame

NextCreate ==
    \/ KernelAdd
    \/ KernelRemove
    \/ KernelChange
    \/ MonListen
    \/ MonScan
    \/ MonPending
    \/ CrKilled
    \/ ParentRead
    \/ ParentJoin
    \/ CrInitialized
    \/ CrOther
    \/ CrDetachHub
    \/ CrKill
    \/ CrWait
    \/ CrStopped
    \/ CrStreamError
    \/ CrReturn
    \/ WatchResolve
    \/ WatchFail

\* ------------------------------------------------------ the supervisor

Init == InitHotplug \/ InitCreate

Next == NextHotplug \/ NextCreate

Spec == Init /\ [][Next]_vars

\* The runtime keeps polling: the watcher task runs when cgroup.events
\* changes, the merged stream hands over what its container stream holds (a
\* Stopped, or the error of a wait whose sender is gone), and a loop that is
\* past the receive goes on to its end.
SpecFair ==
    /\ Spec
    /\ WF_vars(WatchResolve \/ WatchFail)
    /\ WF_vars(CrStopped \/ CrKill \/ CrWait \/ CrReturn
                   \/ (watch = "closed" /\ CrStreamError))
    /\ WF_vars(StoppedEvent)

SpecMonitor == InitMonitor /\ [][NextMonitor]_vars

\* A consumer that keeps polling the stream.
SpecMonitorFair == SpecMonitor /\ WF_vars(MonYield \/ MonPending)

\* ------------------------------- cgroup_device_filter: check_device

\* cgroup.rs: DeviceType::Block.
Block == 1

\* The BPF_DEVCG constants the filter imports; DeviceType and Access of
\* cgroup.rs are written to match them.
BPF_DEVCG_DEV_BLOCK == Block

BPF_DEVCG_DEV_CHAR == Character

BPF_DEVCG_ACC_MKNOD == MKNOD

\* access_type: the lower 16 bits are the device type, the upper 16 bits the
\* access.
TypeBits == 65536

\* DEV_NULL, DEV_ZERO, DEV_FULL, DEV_RANDOM, DEV_URANDOM, DEV_TTY,
\* DEV_CONSOLE, DEV_PTMX.
DefaultDevices ==
    { [ty |-> BPF_DEVCG_DEV_CHAR, major |-> 1, minor |-> 3],
      [ty |-> BPF_DEVCG_DEV_CHAR, major |-> 1, minor |-> 5],
      [ty |-> BPF_DEVCG_DEV_CHAR, major |-> 1, minor |-> 7],
      [ty |-> BPF_DEVCG_DEV_CHAR, major |-> 1, minor |-> 8],
      [ty |-> BPF_DEVCG_DEV_CHAR, major |-> 1, minor |-> 9],
      [ty |-> BPF_DEVCG_DEV_CHAR, major |-> 5, minor |-> 0],
      [ty |-> BPF_DEVCG_DEV_CHAR, major |-> 5, minor |-> 1],
      [ty |-> BPF_DEVCG_DEV_CHAR, major |-> 5, minor |-> 2] }

\* Major number of the pseudo-terminal slaves.
PtyMajor == 136

\* perm & access on u32.
RECURSIVE BitAnd(_, _)
BitAnd(a, b) ==
    IF a = 0 \/ b = 0 THEN 0
    ELSE (a % 2) * (b % 2) + 2 * BitAnd(a \div 2, b \div 2)

\* A default-device match that has no arm for the pseudo-terminals.
IsDefaultDeviceNoPty(dev) == dev \in DefaultDevices

\* match dev { DEV_NULL | ... | DEV_PTMX => return 1,
\*             Device { ty: CHAR, major: 136, minor: _ } => return 1, _ => () }
IsDefaultDevice(dev) ==
    \/ dev \in DefaultDevices
    \/ dev.ty = BPF_DEVCG_DEV_CHAR /\ dev.major = PtyMajor

\* DEVICE_PERM.get(&dev).copied(): -1 stands for None.
MapGet(map, dev) ==
    LET k == <<dev.ty, dev.major, dev.minor>>
    IN  IF k \in DOMAIN map THEN map[k] ELSE -1

\* A filter that asks the wildcard entry first.
CheckDeviceWildcardFirst(map, ctx) ==
    LET dev == [ty |-> ctx.access_type % TypeBits, major |-> ctx.major, minor |-> ctx.minor]
        access == ctx.access_type \div TypeBits
        wild == MapGet(map, [ty |-> dev.ty, major |-> 0, minor |-> 0])
        perm == IF wild = -1 THEN MapGet(map, dev) ELSE wild
    IN  IF dev.ty \in {BPF_DEVCG_DEV_BLOCK, BPF_DEVCG_DEV_CHAR} /\ access = BPF_DEVCG_ACC_MKNOD
        THEN 1
        ELSE IF IsDefaultDevice(dev) THEN 1
        ELSE IF perm = -1 THEN 0
        ELSE IF BitAnd(perm, access) = access THEN 1 ELSE 0

\* check_device
CheckDevice(map, ctx) ==
    LET dev == [ty |-> ctx.access_type % TypeBits, major |-> ctx.major, minor |-> ctx.minor]
        access == ctx.access_type \div TypeBits
        specific == MapGet(map, dev)
        device_perm == IF specific = -1
                       THEN MapGet(map, [ty |-> dev.ty, major |-> 0, minor |-> 0])
                       ELSE specific
    IN  IF dev.ty \in {BPF_DEVCG_DEV_BLOCK, BPF_DEVCG_DEV_CHAR} /\ access = BPF_DEVCG_ACC_MKNOD
        THEN 1
        ELSE IF IsDefaultDevice(dev) THEN 1
        ELSE IF device_perm = -1 THEN 0
        ELSE IF BitAnd(device_perm, access) = access THEN 1 ELSE 0

\* The keys user space writes to DEVICE_PERM and the masks it stores.
FilterKeys ==
    { <<Character, 0, 0>>, <<Character, 7, 1>>, <<Character, 1, 3>>, <<Block, 0, 0>> }

FilterMasks == {READ, READ + WRITE}

\* The accesses the kernel asks the filter about.
CheckedDevices ==
    DefaultDevices \cup
    { [ty |-> Character, major |-> PtyMajor, minor |-> 4],
      [ty |-> Character, major |-> PtyMajor, minor |-> 9],
      [ty |-> Character, major |-> 7, minor |-> 1],
      [ty |-> Character, major |-> 7, minor |-> 2],
      [ty |-> Block, major |-> 7, minor |-> 1],
      [ty |-> Block, major |-> 1, minor |-> 3] }

CheckedAccesses == {MKNOD, READ, WRITE, READ + WRITE, MKNOD + READ}

\* What a step of a component exercised on its own leaves untouched.
UnitFrame ==
    UNCHANGED <<attachVars, entry, streamVars, loopVars, filterOpt, fs, cstate, cstatus,
                removeEv, cpc, notifier, notified, kills, killCalls, hubDetached,
                detachAlive, watch, exitCode, parentVars, monVars, mainVars, nsVars,
                sigVars>>

FilterFrame ==
    /\ UnitFrame
    /\ UNCHANGED <<senderVars, idVars>>

InitFilter ==
    /\ SupIdle
    /\ apc = "done" /\ runtimeProgs = ProgIds /\ attached = {Own}
    /\ existing = <<>> /\ pin = "own" /\ aerr = ""

\* User space changes an entry of DEVICE_PERM (set_permission); what the
\* filter returned before says nothing about the new map.
FilterSetPermission ==
    /\ apc = "done" /\ cpc = "idle" /\ hpc = "idle"
    /\ \E key \in FilterKeys, access \in FilterMasks \cup {0} :
           /\ filterMap' = SetPermission(filterMap, key, access, FALSE).map
           /\ permSet' = Put(permSet, key, access)
    /\ devCtx' = NoCtx /\ devRet' = -1
    /\ FilterFrame

\* The kernel runs the filter for one access of a process of the cgroup.
FilterCheck ==
    /\ apc = "done" /\ cpc = "idle" /\ hpc = "idle"
    /\ \E dev \in CheckedDevices, access \in CheckedAccesses :
           LET ctx == [access_type |-> access * TypeBits + dev.ty,
                       major |-> dev.major, minor |-> dev.minor]
           IN  /\ devCtx' = ctx
               /\ devRet' = CheckDevice(filterMap, ctx)
    /\ UNCHANGED <<filterMap, permSet>>
    /\ FilterFrame

NextFilter == FilterSetPermission \/ FilterCheck

SpecFilter == InitFilter /\ [][NextFilter]_vars

\* ------------------------------ hotplug/kobject_uevent.rs: UdevSender

\* u64's Display: the decimal digits, without sign or padding.
Digit(n) ==
    CASE n = 0 -> "0" [] n = 1 -> "1" [] n = 2 -> "2" [] n = 3 -> "3" [] n = 4 -> "4"
      [] n = 5 -> "5" [] n = 6 -> "6" [] n = 7 -> "7" [] n = 8 -> "8" [] n = 9 -> "9"

RECURSIVE Decimal(_)
Decimal(n) == IF n < 10 THEN Digit(n) ELSE Decimal(n \div 10) \o Digit(n % 10)

\* The properties udev holds for a device, name and value; a device that
\* came with a uevent carries ACTION and SEQNUM among them.  The names of one
\* device are distinct.
SenderDevices ==
    { << <<"DEVNAME", "ttyUSB0">>, <<"SUBSYSTEM", "tty">> >>,
      << <<"ACTION", "bind">>, <<"DEVNAME", "ttyUSB0">>, <<"SEQNUM", "4711">> >>,
      << <<"SEQNUM", "2">>, <<"ACTION", "add">> >> }

SenderEvents == {"add", "remove"}

\* The loop over device.properties(): one NUL-terminated record per
\* property.  The block is the sequence of its records, each without its
\* terminator.
RECURSIVE PropertyRecordsKeepingAll(_)
PropertyRecordsKeepingAll(props) ==
    IF props = <<>> THEN <<>>
    ELSE <<Head(props)[1] \o "=" \o Head(props)[2]>> \o PropertyRecordsKeepingAll(Tail(props))

RECURSIVE PropertyRecords(_)
PropertyRecords(props) ==
    IF props = <<>> THEN <<>>
    ELSE IF Head(props)[1] = "ACTION" \/ Head(props)[1] = "SEQNUM"
         THEN PropertyRecords(Tail(props))
         ELSE <<Head(props)[1] \o "=" \o Head(props)[2]>> \o PropertyRecords(Tail(props))

\* A block that copies every property of the device.
PropertyBlockKeepingAll(props, event, n) ==
    <<"ACTION=" \o event, "SEQNUM=" \o Decimal(n)>> \o PropertyRecordsKeepingAll(props)

\* write!(properties, "ACTION={event}\0SEQNUM={}\0", self.seq_num), then the
\* loop.
PropertyBlock(props, event, n) ==
    <<"ACTION=" \o event, "SEQNUM=" \o Decimal(n)>> \o PropertyRecords(props)

SenderFrame ==
    /\ UnitFrame
    /\ UNCHANGED <<filterMap, filterChkVars, idVars>>

InitSender == InitFilter

\* UdevSender::new: the socket is opened inside the network namespace.
SenderNew ==
    /\ apc = "done" /\ cpc = "idle" /\ hpc = "idle"
    /\ sender = "none"
    /\ sender' \in {"ready", "failed"}
    /\ UNCHANGED <<seqNum, sendLog>>
    /\ SenderFrame

\* A sender that numbers the messages that were delivered.
SenderSendCountingDelivered ==
    /\ apc = "done" /\ cpc = "idle" /\ hpc = "idle"
    /\ sender = "ready" /\ Len(sendLog) < MaxSends
    /\ \E props \in SenderDevices, event \in SenderEvents, ok \in BOOLEAN :
           /\ seqNum' = IF ok THEN seqNum + 1 ELSE seqNum
           /\ sendLog' = Append(sendLog, [block |-> PropertyBlock(props, event, seqNum + 1),
                                          props |-> props, event |-> event, ok |-> ok])
    /\ UNCHANGED sender
    /\ SenderFrame

\* UdevSender::send: seq_num is incremented first; ns.with or sendmsg_addr
\* may fail afterwards.
SenderSend ==
    /\ apc = "done" /\ cpc = "idle" /\ hpc = "idle"
    /\ sender = "ready" /\ Len(sendLog) < MaxSends
    /\ \E props \in SenderDevices, event \in SenderEvents, ok \in BOOLEAN :
           /\ seqNum' = seqNum + 1
           /\ sendLog' = Append(sendLog, [block |-> PropertyBlock(props, event, seqNum + 1),
                                          props |-> props, event |-> event, ok |-> ok])
    /\ UNCHANGED sender
    /\ SenderFrame

NextSender == SenderNew \/ SenderSend

SpecSender == InitSender /\ [][NextSender]_vars

\* ------------------------------------------ util/namespace.rs: IdMap

\* A u32 is kept as two 16-bit halves <<high, low>>, so that the values near
\* u32::MAX and the overflow of an addition are those of the program.
Half == 65536

U32Max == <<Half - 1, Half - 1>>

Lt(a, b) == a[1] < b[1] \/ (a[1] = b[1] /\ a[2] < b[2])

\* a - b for a >= b.
Sub(a, b) ==
    LET borrow == IF a[2] < b[2] THEN 1 ELSE 0
    IN  <<a[1] - b[1] - borrow, a[2] - b[2] + borrow * Half>>

\* An addition that wraps around at 2^32.
WrappingAdd(a, b) ==
    LET low == a[2] + b[2]
        high == a[1] + b[1] + (low \div Half)
    IN  <<high % Half, low % Half>>

\* u32::checked_add
CheckedAdd(a, b) ==
    LET low == a[2] + b[2]
        high == a[1] + b[1] + (low \div Half)
    IN  IF high >= Half THEN NoId ELSE <<high, low % Half>>

\* IdMap::parse: three numbers per line, further words are ignored; a line
\* with fewer words or with a word that is no u32 is an error.
RECURSIVE IdMapParse(_)
IdMapParse(content) ==
    IF content = <<>> THEN [ok |-> TRUE, map |-> <<>>]
    ELSE LET line == Head(content)
             rest == IdMapParse(Tail(content))
         IN  IF Len(line) < 3 \/ \E i \in 1..3 : line[i] = NoId
             THEN [ok |-> FALSE, map |-> <<>>]
             ELSE IF ~rest.ok THEN rest
             ELSE [ok |-> TRUE,
                   map |-> <<[inside |-> line[1], outside |-> line[2], count |-> line[3]]>>
                               \o rest.map]

\* A translation whose additions wrap.
RECURSIVE TranslateWrapping(_, _)
TranslateWrapping(map, id) ==
    IF map = <<>> THEN NoId
    ELSE LET l == Head(map)
             end == WrappingAdd(l.inside, l.count)
         IN  IF ~Lt(id, l.inside) /\ Lt(id, end)
             THEN WrappingAdd(Sub(id, l.inside), l.outside)
             ELSE TranslateWrapping(Tail(map), id)

\* IdMap::translate
RECURSIVE Translate(_, _)
Translate(map, id) ==
    IF map = <<>> THEN NoId
    ELSE LET l == Head(map)
             end == CheckedAdd(l.inside, l.count)
         IN  IF end = NoId THEN NoId
             ELSE IF ~Lt(id, l.inside) /\ Lt(id, end)
                  THEN CheckedAdd(Sub(id, l.inside), l.outside)
                  ELSE Translate(Tail(map), id)

\* The map of a process outside any user namespace, as in_user_ns tests it.
IdentityMap == <<[inside |-> <<0, 0>>, outside |-> <<0, 0>>, count |-> U32Max]>>

\* /proc/<pid>/uid_map contents given to parse, as lines of words.
IdMapContents ==
    { <<>>,
      << <<<<0, 0>>, <<0, 0>>, U32Max>> >>,
      << <<<<0, 0>>, <<0, 1000>>, <<1, 0>>>> >>,
      << <<<<0, 0>>, <<0, 1000>>, <<1, 0>>>>, <<<<1, 0>>, <<1, 34464>>, <<0, 1000>>>> >>,
      << <<<<0, 0>>, <<0, 1000>>, <<1, 0>>, <<0, 7>>>> >>,
      << <<<<Half - 1, Half - 2>>, <<0, 0>>, <<0, 5>>>> >>,
      << <<<<Half - 1, Half - 2>>, <<0, 0>>, <<0, 5>>>>, <<<<0, 0>>, <<0, 1000>>, <<1, 0>>>> >>,
      << <<<<0, 0>>, <<0, 1000>>, <<1, 0>>>>, <<<<Half - 1, Half - 2>>, <<0, 0>>, <<0, 5>>>> >>,
      << <<<<0, 0>>, <<Half - 1, Half - 10>>, <<1, 0>>>> >>,
      << <<<<0, 0>>, <<0, 1000>>>> >>,
      << <<<<0, 0>>, NoId, <<1, 0>>>> >> }

\* The ids given to translate.
IdInputs ==
    { <<0, 0>>, <<0, 1>>, <<0, 9>>, <<0, 10>>, <<0, 999>>, <<0, 1000>>, <<2, 0>>, <<0, Half - 1>>, <<1, 0>>, <<1, 500>>,
      <<1, 999>>, <<1, 1000>>, <<Half - 1, Half - 2>>, U32Max }

IdFrame ==
    /\ UnitFrame
    /\ UNCHANGED <<filterMap, filterChkVars, senderVars>>

InitIdMap == InitFilter

\* IdMap::read / IdMap::parse
IdParse ==
    /\ apc = "done" /\ cpc = "idle" /\ hpc = "idle"
    /\ idPc = "none"
    /\ \E content \in IdMapContents :
           LET r == IdMapParse(content)
           IN  /\ idPc' = IF r.ok THEN "parsed" ELSE "failed"
               /\ idMap' = r.map
    /\ UNCHANGED <<idIn, idOut>>
    /\ IdFrame

\* MntNamespace::uid / gid: translate, None becoming an error.
IdTranslate ==
    /\ apc = "done" /\ cpc = "idle" /\ hpc = "idle"
    /\ idPc \in {"parsed", "translated"}
    /\ \E id \in IdInputs :
           /\ idIn' = id
           /\ idOut' = Translate(idMap, id)
    /\ idPc' = "translated"
    /\ UNCHANGED idMap
    /\ IdFrame

NextIdMap == IdParse \/ IdTranslate

SpecIdMap == InitIdMap /\ [][NextIdMap]_vars

\* ------------------------------ main.rs: do_main, the head of create()

\* The verbs a container manager calls the runtime with.
Verbs == {"create", "run", "start", "kill", "delete", "state"}

\* Command lines, without and with the global option --log.
MainArgvs ==
    {<<"container-hotplug", v, "c1">> : v \in Verbs}
        \cup {<<"container-hotplug", "--log", "/run/log", v, "c1">> : v \in Verbs}

\* Command::parse: global options come before the subcommand.
RECURSIVE SubcommandAt(_, _)
SubcommandAt(args, i) ==
    IF args[i] = "--log" THEN SubcommandAt(args, i + 2) ELSE i

\* args.global.log
LogOption(args) == \E i \in 2..(SubcommandAt(args, 2) - 1) : args[i] = "--log"

\* Subcommand: Create, Run, and Other for an external subcommand.
SubcommandOf(args) ==
    LET verb == args[SubcommandAt(args, 2)]
    IN  CASE verb = "create" -> "Create"
          [] verb = "run" -> "Run"
          [] OTHER -> "Other"

\* Command::new("runc").args(std::env::args().skip(1))
RuncArgv(args) == <<"runc">> \o Tail(args)

\* Errors of create() before it starts runc: Config::from_bundle, the
\* device annotation missing, a DeviceRef that does not parse or does not
\* resolve, a symlink that does not parse, the syslog logger.
ConfigOutcomes ==
    {"ok", "bundle", "annotation", "device_parse", "device", "symlink", "syslog"}

\* Exit codes of a runc that failed.
RuncFailCodes == {1, 2}

\* process.user of the bundle's config.json: <<uid, gid>>, each u32 in two
\* 16-bit halves.
ConfigUsers ==
    { <<<<0, 0>>, <<0, 0>>>>,
      <<<<0, 1000>>, <<0, 1000>>>>,
      <<<<65535, 65535>>, <<0, 0>>>>,
      <<<<0, 1000>>, <<65535, 65535>>>> }

\* What do_main and the head of create() leave untouched.
MainFrameNoAttach ==
    UNCHANGED <<streamVars, loopVars, handleVars, notifier, notified, kills,
                killCalls, hubDetached, detachAlive, watch, monVars, filterChkVars,
                senderVars, idVars, argv, euid, nsVars, sigVars>>

MainFrame ==
    /\ MainFrameNoAttach
    /\ UNCHANGED attachVars

\* do_main returns Err before the fork; main() returns ExitCode::FAILURE.
MainFail(err) ==
    /\ ppc' = "exited"
    /\ parentExit' = ExitFailure
    /\ mainErr' = err
    /\ UNCHANGED <<entry, cpc, exitCode, parentGot, execArgv, forks, cfgErr, runcRuns, childVars>>
    /\ MainFrame

InitMain ==
    /\ entry = "main"
    /\ apc = "idle" /\ runtimeProgs = {} /\ attached = {}
    /\ existing = <<>> /\ pin = "none" /\ aerr = ""
    /\ phase = "enum" /\ enumerated = <<>> /\ nlive = 0 /\ startedCount = 0
    /\ hpc = "idle" /\ devices = <<>> /\ ops = <<>> /\ opErr = ""
    /\ detached = NoSummary /\ lastEvent = "none" /\ startCb = 0 /\ result = -1
    /\ filterMap = <<>> /\ filterOpt = "some" /\ fs = <<>>
    /\ cstate = "running" /\ cstatus = 0 /\ removeEv = "pending"
    /\ cpc = "idle" /\ notifier = "some" /\ notified = 0 /\ kills = 0
    /\ killCalls = 0 /\ hubDetached = FALSE /\ detachAlive = FALSE
    /\ watch = "pending"
    /\ exitCode = -1
    /\ ppc = "start" /\ parentGot = "" /\ parentExit = -1
    /\ mpc = "idle" /\ present = {} /\ sockq = <<>> /\ seen = <<>>
    /\ scanned = <<>> /\ mlog = <<>> /\ unheard = {} /\ readable = FALSE
    /\ nkern = 0
    /\ devCtx = NoCtx /\ devRet = -1 /\ permSet = <<>>
    /\ sender = "none" /\ seqNum = 0 /\ sendLog = <<>>
    /\ idPc = "none" /\ idMap = <<>> /\ idIn = NoId /\ idOut = NoId
    /\ argv \in MainArgvs /\ euid \in {0, 1000} /\ execArgv = <<>> /\ forks = 0
    /\ mainErr = "" /\ cfgErr = "" /\ runcRuns = 0
    /\ runcExit = -1 /\ cfgUser = NoUser /\ handle = NoUser
    /\ sigPc = "none" /\ sigLog = <<>>
    /\ NsIdle

\* if !geteuid().is_root() { bail!(..) }
MainRootCheck ==
    /\ entry = "main" /\ ppc = "start"
    /\ IF euid # 0
       THEN MainFail("not_root")
       ELSE /\ ppc' = "log"
            /\ UNCHANGED <<entry, cpc, exitCode, parentGot, parentExit, execArgv, forks,
                           mainErr, cfgErr, runcRuns, childVars>>
            /\ MainFrame

\* if let Some(log) = &args.global.log { File::options()...open(log)?; .. }
MainLog ==
    /\ entry = "main" /\ ppc = "log"
    /\ \/ /\ ppc' = "dispatch"
          /\ UNCHANGED <<entry, cpc, exitCode, parentGot, parentExit, execArgv, forks,
                         mainErr, cfgErr, runcRuns, childVars>>
          /\ MainFrame
       \/ /\ LogOption(argv)
          /\ MainFail("log")

\* A dispatch that forwards `run` to runc as well.
MainDispatchForwardingRun ==
    /\ entry = "main" /\ ppc = "dispatch"
    /\ IF SubcommandOf(argv) = "Create"
       THEN /\ ppc' = "pipe"
            /\ UNCHANGED <<entry, cpc, exitCode, parentGot, parentExit, execArgv, forks,
                           mainErr, cfgErr, runcRuns, childVars>>
            /\ MainFrame
       ELSE \/ /\ ppc' = "execed"
               /\ execArgv' = RuncArgv(argv)
               /\ UNCHANGED <<entry, cpc, exitCode, parentGot, parentExit, forks,
                              mainErr, cfgErr, runcRuns, childVars>>
               /\ MainFrame
            \/ MainFail("exec")

\* match args.command: Create goes on, Run is refused, Other is replaced by
\* runc; exec only returns when it failed.
MainDispatch ==
    /\ entry = "main" /\ ppc = "dispatch"
    /\ CASE SubcommandOf(argv) = "Create" ->
              /\ ppc' = "pipe"
              /\ UNCHANGED <<entry, cpc, exitCode, parentGot, parentExit, execArgv, forks,
                             mainErr, cfgErr, runcRuns, childVars>>
              /\ MainFrame
         [] SubcommandOf(argv) = "Run" -> MainFail("run_unsupported")
         [] OTHER ->
              \/ /\ ppc' = "execed"
                 /\ execArgv' = RuncArgv(argv)
                 /\ UNCHANGED <<entry, cpc, exitCode, parentGot, parentExit, forks,
                                mainErr, cfgErr, runcRuns, childVars>>
                 /\ MainFrame
              \/ MainFail("exec")

\* std::io::pipe()? and safe_fork::fork(): the child enters create(), the
\* parent reads the pipe.
MainFork ==
    /\ entry = "main" /\ ppc = "pipe"
    /\ \/ MainFail("pipe")
       \/ /\ forks' = forks + 1
          /\ entry' = "create"
          /\ ppc' = "read"
          /\ cpc' = "config"
          /\ UNCHANGED <<exitCode, parentGot, parentExit, execArgv, mainErr, cfgErr,
                         runcRuns, childVars>>
          /\ MainFrame

\* A create() that goes on to runc whatever the configuration held.
ChildConfigIgnoringErrors ==
    /\ entry = "create" /\ cpc = "config"
    /\ \E o \in ConfigOutcomes :
           /\ cfgErr' = IF o = "ok" THEN "" ELSE o
           /\ cpc' = "runc"
           /\ cfgUser' \in ConfigUsers
           /\ UNCHANGED exitCode
    /\ UNCHANGED <<entry, parentVars, execArgv, forks, mainErr, runcRuns, runcExit, handle>>
    /\ MainFrame

\* create(), from Config::from_bundle to the syslog logger: every error
\* returns through `?`.
ChildConfig ==
    /\ entry = "create" /\ cpc = "config"
    /\ \E o \in ConfigOutcomes :
           IF o = "ok"
           THEN /\ cpc' = "runc"
                /\ cfgUser' \in ConfigUsers
                /\ UNCHANGED <<exitCode, cfgErr>>
           ELSE /\ CreateFail
                /\ cfgErr' = o
                /\ UNCHANGED cfgUser
    /\ UNCHANGED <<entry, parentVars, execArgv, forks, mainErr, runcRuns, runcExit, handle>>
    /\ MainFrame

\* How a runc that was waited for can have ended.
RuncExits == {0, -2} \cup RuncFailCodes

\* runc.code().unwrap_or(1)
CodeOr1(x) == IF x = -2 THEN 1 ELSE x

\* A create() that goes on whatever runc returned.
ChildRuncIgnoringStatus ==
    /\ entry = "create" /\ cpc = "runc"
    /\ runcRuns' = runcRuns + 1
    /\ \/ /\ CreateFail
          /\ UNCHANGED runcExit
       \/ /\ runcExit' \in RuncExits
          /\ cpc' = "container"
          /\ UNCHANGED exitCode
    /\ UNCHANGED <<entry, parentVars, execArgv, forks, mainErr, cfgErr, cfgUser, handle>>
    /\ MainFrame

\* Delegate to runc to create the container: spawn or wait fails; runc
\* fails and the child exits with its code, 1 when it has none; or the
\* container exists.
ChildRunc ==
    /\ entry = "create" /\ cpc = "runc"
    /\ runcRuns' = runcRuns + 1
    /\ \/ /\ CreateFail
          /\ UNCHANGED runcExit
       \/ /\ runcExit' \in RuncExits
          /\ IF runcExit' # 0
             THEN /\ cpc' = "exited"
                  /\ exitCode' = CodeOr1(runcExit')
             ELSE /\ cpc' = "container"
                  /\ UNCHANGED exitCode
    /\ UNCHANGED <<entry, parentVars, execArgv, forks, mainErr, cfgErr, cfgUser, handle>>
    /\ MainFrame

\* runc::state::State::from_root_and_id(&global.root, &create.container_id)?
ChildState ==
    /\ entry = "create" /\ cpc = "container"
    /\ \/ CreateFail
       \/ /\ cpc' = "state"
          /\ UNCHANGED exitCode
    /\ UNCHANGED <<entry, parentVars, execArgv, forks, mainErr, cfgErr, runcRuns, childVars>>
    /\ MainFrame

\* Where Container::new can return an error: before the device filter is
\* made (cgroup.events, the cgroup's name, a cgroup-v1 path, the filter
\* itself) and after it (the pid, the remount of /dev).
NewErrorsBefore == {"notifier", "cgroup_name", "cgroupv1", "filter"}

NewErrorsAfter == {"pid", "remount"}

\* Container::new: the watcher task is spawned, the device filter is
\* attached and pinned, uid and gid are copied from config.process.user.  An
\* error after the filter was made drops the controller on the way out.
ChildContainerNew ==
    /\ entry = "create" /\ cpc = "state"
    /\ \E o \in {"ok"} \cup NewErrorsBefore \cup NewErrorsAfter :
           CASE o = "ok" ->
                  /\ apc' = "done" /\ attached' = {Own} /\ pin' = "own"
                  /\ handle' = <<cfgUser[1], cfgUser[2]>>
                  /\ cpc' = "handle"
                  /\ UNCHANGED exitCode
             [] o \in NewErrorsAfter ->
                  /\ apc' = "done" /\ attached' = {Own} /\ pin' = DropController
                  /\ CreateFail
                  /\ UNCHANGED handle
             [] OTHER ->
                  /\ CreateFail
                  /\ UNCHANGED <<apc, attached, pin, handle>>
    /\ UNCHANGED <<existing, aerr, runtimeProgs>>
    /\ UNCHANGED <<entry, parentVars, execArgv, forks, mainErr, cfgErr, runcRuns,
                   runcExit, cfgUser>>
    /\ MainFrameNoAttach

\* The stdio redirection to /dev/null and HotPlug::new: the supervisor is
\* ready to run its loop.
ChildSupervise ==
    /\ entry = "create" /\ cpc = "handle"
    /\ \/ CreateFail
       \/ /\ cpc' = "new"
          /\ UNCHANGED exitCode
    /\ UNCHANGED <<entry, parentVars, execArgv, forks, mainErr, cfgErr, runcRuns, childVars>>
    /\ MainFrame

NextMain ==
    \/ MainRootCheck
    \/ MainLog
    \/ MainDispatch
    \/ MainFork
    \/ ChildConfig
    \/ ChildRunc
    \/ ChildState
    \/ ChildContainerNew
    \/ ChildSupervise
    \/ ParentRead
    \/ ParentJoin

SpecMain == InitMain /\ [][NextMain]_vars

\* --------------------------- util/namespace.rs: MntNamespace::enter

\* What is left untouched by a step of enter.
NsFrame ==
    UNCHANGED <<attachVars, entry, streamVars, loopVars, handleVars, cpc, notifier,
                notified, kills, killCalls, hubDetached, detachAlive, watch, exitCode,
                parentVars, monVars, filterChkVars, senderVars, idVars, mainVars,
                sigVars>>

\* The ids uid(0) and gid(0) translate to in the container's user namespace.
NsIdChoices == {-1, 0, 1000}

InitEnter == InitFilter

\* A step of the worker fails: the closure returns Err through `?`.
WorkerFail ==
    /\ wpc' = "failed"
    /\ UNCHANGED <<caller, worker, fsView, nsIds, enterRet, enters>>

\* std::thread::scope / scope.spawn: the new thread starts with the
\* caller's namespaces, fs struct and credentials.
EnterSpawn ==
    /\ apc = "done" /\ cpc = "idle" /\ hpc = "idle"
    /\ wpc = "none" /\ enters < MaxEnters
    /\ enters' = enters + 1
    /\ nsIds' \in NsIdChoices \X NsIdChoices
    /\ wpc' = "unshare"
    /\ worker' = caller
    /\ enterRet' = ""
    /\ UNCHANGED <<caller, fsView>>
    /\ NsFrame

\* rustix::thread::unshare(UnshareFlags::FS): the thread gets a copy of the
\* fs struct.
WorkerUnshare ==
    /\ wpc = "unshare"
    /\ \/ /\ wpc' = "setns"
          /\ fsView' = Append(fsView, fsView[worker.fs])
          /\ worker' = [worker EXCEPT !.fs = Len(fsView) + 1]
          /\ UNCHANGED <<caller, nsIds, enterRet, enters>>
       \/ WorkerFail
    /\ NsFrame

\* move_into_link_name_space(mnt_fd, Mount): EINVAL while the fs struct is
\* shared with another thread; otherwise the thread, and the root and cwd of
\* its fs struct, move to the container's mount namespace.
WorkerSetns ==
    /\ wpc = "setns"
    /\ \/ /\ worker.fs # caller.fs
          /\ wpc' = "secbits"
          /\ worker' = [worker EXCEPT !.mnt = "container"]
          /\ fsView' = [fsView EXCEPT ![worker.fs] = "container"]
          /\ UNCHANGED <<caller, nsIds, enterRet, enters>>
       \/ WorkerFail
    /\ NsFrame

\* set_capabilities_secure_bits(NO_SETUID_FIXUP): prctl acts on the calling
\* thread.
WorkerSecureBits ==
    /\ wpc = "secbits"
    /\ \/ /\ wpc' = "uid"
          /\ worker' = [worker EXCEPT !.secbits = "NO_SETUID_FIXUP"]
          /\ UNCHANGED <<caller, fsView, nsIds, enterRet, enters>>
       \/ WorkerFail
    /\ NsFrame

\* A setuid that is applied to every thread of the process.
WorkerSetUidProcessWide ==
    /\ wpc = "uid"
    /\ \/ /\ nsIds[1] # -1
          /\ wpc' = "gid"
          /\ worker' = [worker EXCEPT !.uid = nsIds[1]]
          /\ caller' = [caller EXCEPT !.uid = nsIds[1]]
          /\ UNCHANGED <<fsView, nsIds, enterRet, enters>>
       \/ WorkerFail
    /\ NsFrame

\* set_thread_uid(Uid::from_raw(self.uid(0)?)): the translation can fail,
\* and so can the system call, which acts on the calling thread only.
WorkerSetUid ==
    /\ wpc = "uid"
    /\ \/ /\ nsIds[1] # -1
          /\ wpc' = "gid"
          /\ worker' = [worker EXCEPT !.uid = nsIds[1]]
          /\ UNCHANGED <<caller, fsView, nsIds, enterRet, enters>>
       \/ WorkerFail
    /\ NsFrame

\* set_thread_gid(Gid::from_raw(self.gid(0)?))
WorkerSetGid ==
    /\ wpc = "gid"
    /\ \/ /\ nsIds[2] # -1
          /\ wpc' = "run"
          /\ worker' = [worker EXCEPT !.gid = nsIds[2]]
          /\ UNCHANGED <<caller, fsView, nsIds, enterRet, enters>>
       \/ WorkerFail
    /\ NsFrame

\* Ok(f()): f returns or panics.
WorkerRun ==
    /\ wpc = "run"
    /\ wpc' \in {"done", "panicked"}
    /\ UNCHANGED <<caller, worker, fsView, nsIds, enterRet, enters>>
    /\ NsFrame

\* .join().map_err(|_| anyhow!("work thread panicked"))?: the scope ends
\* when the worker has ended, and enter returns.
EnterJoin ==
    /\ wpc \in {"done", "failed", "panicked"}
    /\ enterRet' = IF wpc = "done" THEN "ok" ELSE "err"
    /\ wpc' = "none"
    /\ UNCHANGED <<caller, worker, fsView, nsIds, enters>>
    /\ NsFrame

NextEnter ==
    \/ EnterSpawn
    \/ WorkerUnshare
    \/ WorkerSetns
    \/ WorkerSecureBits
    \/ WorkerSetUid
    \/ WorkerSetGid
    \/ WorkerRun
    \/ EnterJoin

SpecEnter == InitEnter /\ [][NextEnter]_vars

\* ------------------------------ docker/container.rs: pipe_signals

MaxSignals == 2

\* The signals pipe_signals listens for.
SignalKinds == {"ALRM", "HUP", "INT", "QUIT", "TERM", "USR1", "USR2"}

\* signal_stream(kind): what the stream yields when a signal of that kind
\* arrives: `let sig_kind = SignalKind::hangup(); .. yield sig_kind;`.
SignalStream(kind) == "HUP"

\* What is left untouched by the signal task.
SigFrame ==
    UNCHANGED <<attachVars, entry, streamVars, loopVars, handleVars, cpc, notifier,
                notified, kills, killCalls, hubDetached, detachAlive, watch, exitCode,
                parentVars, monVars, filterChkVars, senderVars, idVars, mainVars, nsVars>>

InitSignals == InitFilter

\* pipe_signals: the task is spawned; registering a signal handler can fail
\* when the stream is first polled.
PipeSignals ==
    /\ sigPc = "none"
    /\ sigPc' \in {"listen", "failed"}
    /\ UNCHANGED sigLog
    /\ SigFrame

\* while let Some(signal) = stream.next().await {
\*     container.kill(signal?.as_raw_value()).await?; }
\* One signal arrives, the merged stream yields, and the container is sent
\* what it yielded; an error of the kill ends the task.
SignalReceived ==
    /\ sigPc = "listen" /\ Len(sigLog) < MaxSignals
    /\ \E kind \in SignalKinds, ok \in BOOLEAN :
           /\ sigLog' = Append(sigLog, [got |-> kind, kill |-> SignalStream(kind), ok |-> ok])
           /\ sigPc' = IF ok THEN "listen" ELSE "failed"
    /\ SigFrame

\* select!: container.wait() returned, the task ends and no signal is
\* forwarded any more.
SignalsContainerExit ==
    /\ sigPc = "listen"
    /\ sigPc' = "exited"
    /\ UNCHANGED sigLog
    /\ SigFrame

NextSignals == PipeSignals \/ SignalReceived \/ SignalsContainerExit

SpecSignals == InitSignals /\ [][NextSignals]_vars

\* ------------------------------------------------------------ claims

C3_LiveDevicesMaterialised ==
    (hpc = "run" /\ filterOpt = "some") =>
        \A p \in DOMAIN devices :
            /\ Key(devices[p].num) \in DOMAIN filterMap
            /\ filterMap[Key(devices[p].num)] # 0
            /\ devices[p].node \in DOMAIN fs
            /\ devices[p].link # "" => devices[p].link \in DOMAIN fs

C6_RootUnpluggedExit ==
    /\ kills <= 1
    /\ (hubDetached /\ detachAlive /\ cpc = "exited") =>
           /\ killCalls = 1
           /\ exitCode = RootUnpluggedExitCode

\* C7: a detached root device makes the supervisor call kill and then wait
\* for the unpopulated cgroup: it leaves the loop normally only when the wait
\* resolved, and with an error only when the wait failed, whether or not the
\* kill succeeded.  In the hotplug loop the removal of the container has been
\* confirmed before the loop goes on.
C7_KillThenWait ==
    /\ (hubDetached /\ cpc \in {"wait", "drop", "exited", "failed"}) => killCalls = 1
    /\ (hubDetached /\ cpc \in {"drop", "exited"}) => (watch = "true" /\ cstate # "running")
    /\ (hubDetached /\ cpc = "failed") => watch = "closed"
    /\ (lastEvent = "remove" /\ detached # NoSummary /\ detached.sys \in Required /\ hpc = "run")
           => (removeEv = "seen" /\ cstate = "removed")

\* C7 witness: the kill failed because the init process had already gone, the
\* wait was still done and resolved.
C7_Witness ==
    /\ hubDetached
    /\ cpc = "exited"
    /\ killCalls = 1
    /\ kills = 0
    /\ watch = "true"

\* C8: when the container ended on its own with status s, the supervisor's
\* exit code is s truncated to u8, or 1 when that equals the root-unplugged
\* exit code.
C8_ExitStatus ==
    (cpc = "exited" /\ ~hubDetached) =>
        exitCode = (IF cstatus % 256 = RootUnpluggedExitCode THEN 1 ELSE cstatus % 256)

\* C9 as claimed: once the supervisor is live, the run loop is still running
\* after a per-device operation failed.
C9_FailureKeepsLoop ==
    (startedCount = 1 /\ opErr \in {"device", "mknod", "symlink", "rm"}) => hpc = "run"

\* C9 amended: once the supervisor is live, a failure of a per-device
\* operation (filter update, mknod, symlink, rm) ends the run loop: hotplug()
\* returns the error and no status.
C9_FailureEndsLoop ==
    (startedCount = 1 /\ opErr \in {"device", "mknod", "symlink", "rm"})
        => (hpc = "failed" /\ result = -1)

\* C9 witness: mknod failed for a device while the container runs.
C9_Witness ==
    /\ opErr = "mknod"
    /\ hpc = "failed"
    /\ cstate = "running"
    /\ startedCount = 1

SnapshotProcessed ==
    /\ Len(mlog) >= Len(scanned)
    /\ \A i \in DOMAIN scanned : mlog[i] = [t |-> "add", d |-> scanned[i]]

\* C12: the byte is written, and read by the parent, only after every Add of
\* the initial snapshot has been processed and Initialized has been emitted.
C12_NotifyAfterSnapshot ==
    (notified > 0 \/ parentGot = "byte") =>
        /\ mpc = "ready"
        /\ phase = "live"
        /\ enumerated = <<>>
        /\ SnapshotProcessed

\* C12 witness: two devices were plugged in at the start, and the parent has
\* read the byte.
C12_Witness ==
    /\ parentGot = "byte"
    /\ Len(scanned) = 2
    /\ SnapshotProcessed

\* The syspath of a DeviceEvent.
SysOf(ev) == ev.d.udev.sys

\* C13: the stream returns the devices enumerated under the root, one Add
\* each and in enumeration order, before it returns anything read from the
\* socket, and two Adds of one syspath are always separated by a Remove of
\* that syspath.
C13_SnapshotFirstNoDuplicate ==
    LET popped == Len(scanned) - Len(enumerated)
    IN  /\ \A i, j \in DOMAIN scanned : i # j => scanned[i].udev.sys # scanned[j].udev.sys
        /\ mpc = "ready" =>
              /\ Len(mlog) >= popped
              /\ enumerated # <<>> => Len(mlog) = popped
              /\ \A i \in 1..popped : mlog[i] = [t |-> "add", d |-> scanned[i]]
        /\ \A i, j \in DOMAIN mlog :
              (i < j /\ mlog[i].t = "add" /\ mlog[j].t = "add" /\ SysOf(mlog[i]) = SysOf(mlog[j]))
                  => \E k \in (i + 1)..(j - 1) :
                         mlog[k].t = "remove" /\ SysOf(mlog[k]) = SysOf(mlog[i])

\* C13 witness: both enumerated devices were returned first; the second was
\* then unplugged and plugged in again, and its syspath has a Remove between
\* its two Adds; a third uevent was read without a further DeviceEvent.
C13_Witness ==
    /\ Len(scanned) = 2
    /\ Len(mlog) = 4
    /\ mlog[3].t = "remove" /\ SysOf(mlog[3]) = SysOf(mlog[2])
    /\ mlog[4].t = "add" /\ SysOf(mlog[4]) = SysOf(mlog[2])
    /\ nkern = 3
    /\ sockq = <<>>

\* The DeviceEvent a step has appended to the log, NoDeviceEvent if none.
Returned == IF Len(mlog') = Len(mlog) + 1 THEN mlog'[Len(mlog')] ELSE NoDeviceEvent

\* C14: a Remove is returned only for a syspath that is in the seen map at
\* that moment, it carries the Device stored there, and that Device is the
\* one of the last Add returned for the syspath (same devnum, devnode and
\* type).
C14_RemoveIsCached ==
    /\ [][Returned.t = "remove" =>
              /\ SysOf(Returned) \in DOMAIN seen
              /\ Returned.d = seen[SysOf(Returned)]
              /\ SysOf(Returned) \notin DOMAIN seen']_vars
    /\ [](\A j \in DOMAIN mlog :
              mlog[j].t = "remove" =>
                  \E i \in 1..(j - 1) :
                      /\ mlog[i] = [t |-> "add", d |-> mlog[j].d]
                      /\ \A k \in (i + 1)..(j - 1) : SysOf(mlog[k]) # SysOf(mlog[j]))

\* C14 witness: the serial device was unplugged; the uevent carries no
\* devnode, the Remove returned carries the devnode cached at the Add.
C14_Witness ==
    /\ Len(mlog) = 3
    /\ mlog[3].t = "remove"
    /\ mlog[3].d = DeviceFromUdev(DevTty)
    /\ mlog[3].d.devnode # <<>>
    /\ DevPath \notin DOMAIN seen

\* C15 as claimed: no device that the initial enumeration reported is
\* removed by the kernel while no monitor socket is open, so its removal is
\* never missed.
C15_NoRemovalLost == unheard = {}

\* The uevents a step has taken from the socket.
Consumed ==
    IF Len(sockq') < Len(sockq)
    THEN SubSeq(sockq, 1, Len(sockq) - Len(sockq'))
    ELSE <<>>

\* The de-duplication rules and the filter of try_read: what it may skip.
Skippable(e) ==
    /\ ~(e.t = "add" /\ StartsWith(e.d.sys, HubPath) /\ e.d.sys \notin DOMAIN seen)
    /\ ~(e.t = "remove" /\ e.d.sys \in DOMAIN seen)

\* C16: every uevent taken from the socket is either returned on the stream
\* or one that the rules skip (not an add or remove under the root, an Add
\* for a seen syspath, a Remove for an unseen one); while uevents are queued
\* and nothing is enumerated the socket is held readable, so the stream does
\* not stall; and with a consumer that keeps polling every queued uevent is
\* eventually taken.
C16_NoEventDropped ==
    /\ [][\A i \in DOMAIN Consumed :
              \/ Skippable(Consumed[i])
              \/ /\ i = Len(Consumed)
                 /\ Returned.t = Consumed[i].t
                 /\ SysOf(Returned) = Consumed[i].d.sys]_vars
    /\ []((mpc = "ready" /\ sockq # <<>>) => readable)
    /\ ((mpc = "ready" /\ sockq # <<>>) ~> (sockq = <<>>))

\* C16 witness: the kernel sent three uevents; a polling consumer has taken
\* all that were queued, two of them were returned behind the enumerated
\* devices, and the last poll was Pending.
C16_Witness ==
    /\ mpc = "ready"
    /\ nkern = 3
    /\ sockq = <<>>
    /\ enumerated = <<>>
    /\ Len(mlog) = Len(scanned) + 2
    /\ ~readable

C18_FailureKeepsRuntimeFilter ==
    /\ (apc = "failed" /\ aerr \in {"load", "attach", "pin"}) => runtimeProgs \subseteq attached
    /\ [][(apc \in {"load", "attach", "pin"} /\ apc' \notin {"query", "unlink", "detach"})
              => (apc' = "failed" /\ aerr' = apc /\ attached' = attached)]_vars

\* C18 witness: the runtime had two programs attached, a stale pin could not
\* be unlinked and pinning the own program failed.
C18_Witness ==
    /\ apc = "failed"
    /\ aerr = "pin"
    /\ pin = "stale"
    /\ Cardinality(runtimeProgs) = 2
    /\ Len(existing) = 2
    /\ runtimeProgs \subseteq attached

\* C19 as claimed: a failure inside the supervisor (the monitor cannot be
\* built, an error on the event stream, a failed wait or notification) ends
\* the process with exit code 125.
C19_InternalFailureExit125 == cpc = "failed" => exitCode = 125

\* C20 as claimed: in one run of hotplug() the pinned filter is removed
\* exactly once: the controller is taken and stopped at most once, the pin
\* goes only through that stop, and when the container has stopped and the
\* loop has returned its status the pin has been removed.
C20_FilterRemovedOnce ==
    entry = "hotplug" =>
        /\ pin = "none" => filterOpt = "taken"
        /\ hpc = "panicked" => filterOpt = "taken"
        /\ hpc = "done" => pin = "none"


\* C21: every device in the live map, in the monitor's seen map, in its
\* enumeration and in the events it returned has a syspath equal to or below
\* the root device; nothing of a device outside the sub-tree reaches the
\* filter map or the container's /dev; and a step that dispatches an event
\* for a syspath outside the sub-tree leaves the live map, the filter map and
\* the container's file system as they were.
C21_UnderRoot ==
    /\ \A k \in DOMAIN devices : StartsWith(k, HubPath)
    /\ \A k \in DOMAIN seen : StartsWith(k, HubPath)
    /\ \A i \in DOMAIN enumerated :
           entry \in {"create", "monitor"} => StartsWith(enumerated[i].udev.sys, HubPath)
    /\ \A i \in DOMAIN mlog : StartsWith(SysOf(mlog[i]), HubPath)
    /\ \A d \in Universe :
           ~StartsWith(d.sys, HubPath) =>
               /\ Key(d.num) \notin DOMAIN filterMap
               /\ d.node \notin DOMAIN fs

C21_OutsideEventChangesNothing ==
    /\ [](C21_UnderRoot)
    /\ [][\A t \in {"add", "remove", "change"}, d \in Universe :
              (/\ ~StartsWith(d.sys, HubPath)
               /\ entry = "hotplug" /\ hpc = "run"
               /\ Dispatch(MapFn(t, d)))
                  => UNCHANGED <<devices, filterMap, fs>>]_vars

\* C21 witness: the enumeration found the root device and a device outside
\* it; the stream was drained and only the root device is in the live map.
C21_Witness ==
    /\ entry = "hotplug" /\ hpc = "run"
    /\ startedCount = 1 /\ nlive = 0
    /\ enumerated = <<>>
    /\ DOMAIN devices = {HubPath}
    /\ DOMAIN fs = {DevHub.node}


\* The device and the access a bpf_cgroup_dev_ctx describes.
CtxDev(ctx) == [ty |-> ctx.access_type % TypeBits, major |-> ctx.major, minor |-> ctx.minor]

CtxAccess(ctx) == ctx.access_type \div TypeBits

\* Every bit set in a is set in m.
SubMask(a, m) == \A b \in {MKNOD, READ, WRITE} : ((a \div b) % 2 = 1) => ((m \div b) % 2 = 1)

\* C22: for an access that is neither a bare MKNOD nor an access to a default
\* device, the filter admits it iff the mask stored for (type, major, minor)
\* covers it; when there is no such entry, iff the mask stored for
\* (type, 0, 0) covers it; and it denies it when neither entry exists.
C22_SpecificBeforeWildcard ==
    (devRet # -1 /\ apc = "done" /\ hpc = "idle"
        /\ ~(CtxAccess(devCtx) = MKNOD /\ CtxDev(devCtx).ty \in {Block, Character})
        /\ CtxDev(devCtx) \notin DefaultDevices
        /\ ~(CtxDev(devCtx).ty = Character /\ CtxDev(devCtx).major = 136)) =>
        LET dev == CtxDev(devCtx)
            a == CtxAccess(devCtx)
            k == <<dev.ty, dev.major, dev.minor>>
            w == <<dev.ty, 0, 0>>
        IN  /\ devRet \in {0, 1}
            /\ k \in DOMAIN filterMap => (devRet = 1 <=> SubMask(a, filterMap[k]))
            /\ (k \notin DOMAIN filterMap /\ w \in DOMAIN filterMap) =>
                   (devRet = 1 <=> SubMask(a, filterMap[w]))
            /\ (k \notin DOMAIN filterMap /\ w \notin DOMAIN filterMap) => devRet = 0

\* C22 witness: the entry of the device allows reading only, the wildcard
\* allows reading and writing, and a write was denied.
C22_Witness ==
    /\ devCtx = [access_type |-> WRITE * TypeBits + Character, major |-> 7, minor |-> 1]
    /\ <<Character, 7, 1>> \in DOMAIN filterMap /\ filterMap[<<Character, 7, 1>>] = READ
    /\ <<Character, 0, 0>> \in DOMAIN filterMap
    /\ filterMap[<<Character, 0, 0>>] = READ + WRITE
    /\ devRet = 0

\* C23: an access to one of the character devices (1,3), (1,5), (1,7),
\* (1,8), (1,9), (5,0), (5,1), (5,2) or to any minor of character major 136
\* is admitted, whatever the filter map holds.
C23_DefaultDevicesAdmitted ==
    (devRet # -1 /\ apc = "done" /\ hpc = "idle"
        /\ CtxDev(devCtx).ty = Character
        /\ \/ <<CtxDev(devCtx).major, CtxDev(devCtx).minor>> \in
                  {<<1, 3>>, <<1, 5>>, <<1, 7>>, <<1, 8>>, <<1, 9>>,
                   <<5, 0>>, <<5, 1>>, <<5, 2>>}
           \/ CtxDev(devCtx).major = 136) =>
        devRet = 1

\* C23 witness: a write to a pseudo-terminal was admitted while the wildcard
\* entry for character devices allows reading only.
C23_Witness ==
    /\ devCtx = [access_type |-> WRITE * TypeBits + Character, major |-> 136, minor |-> 9]
    /\ DOMAIN filterMap = {<<Character, 0, 0>>, <<Character, 1, 3>>}
    /\ filterMap[<<Character, 0, 0>>] = READ
    /\ filterMap[<<Character, 1, 3>>] = READ
    /\ devRet = 1


\* The number a message carries: the decimal number after SEQNUM= in its
\* second record.
SeqnumOf(msg) ==
    CHOOSE n \in 0..(MaxSends + 1) : msg.block[2] = "SEQNUM=" \o Decimal(n)

\* C24: the first message of a sender carries SEQNUM 1, every later message
\* carries a larger SEQNUM than the one before it, whether that one was
\* delivered or not, and no two messages carry the same SEQNUM.
C24_SeqnumStrictlyIncreases ==
    /\ \A i \in DOMAIN sendLog :
           \E n \in 1..MaxSends : sendLog[i].block[2] = "SEQNUM=" \o Decimal(n)
    /\ sendLog # <<>> => SeqnumOf(sendLog[1]) = 1
    /\ \A i \in DOMAIN sendLog :
           i > 1 => SeqnumOf(sendLog[i]) > SeqnumOf(sendLog[i - 1])
    /\ \A i, j \in DOMAIN sendLog : i # j => SeqnumOf(sendLog[i]) # SeqnumOf(sendLog[j])

\* C24 witness: three sends, the second of which failed.
C24_Witness ==
    /\ Len(sendLog) = 3
    /\ sendLog[1].ok /\ ~sendLog[2].ok /\ sendLog[3].ok
    /\ SeqnumOf(sendLog[3]) = 3

\* The values a record of the model can hold.
RecordValues ==
    SenderEvents \cup {Decimal(n) : n \in 0..(MaxSends + 1)}
        \cup UNION {{p[i][2] : i \in DOMAIN p} : p \in SenderDevices}

IsRecordOf(r, name) == \E v \in RecordValues : r = name \o "=" \o v

\* C25: the block of every message starts with ACTION=<event> and
\* SEQNUM=<n>, holds no other ACTION or SEQNUM record, and holds every other
\* property of the device exactly once as KEY=VALUE.
C25_ActionSeqnumFirstAndOnce ==
    \A i \in DOMAIN sendLog :
        LET m == sendLog[i]
        IN  /\ Len(m.block) >= 2
            /\ m.block[1] = "ACTION=" \o m.event /\ m.event \in {"add", "remove"}
            /\ IsRecordOf(m.block[2], "SEQNUM")
            /\ Cardinality({j \in DOMAIN m.block : IsRecordOf(m.block[j], "ACTION")}) = 1
            /\ Cardinality({j \in DOMAIN m.block : IsRecordOf(m.block[j], "SEQNUM")}) = 1
            /\ \A k \in DOMAIN m.props :
                   m.props[k][1] \notin {"ACTION", "SEQNUM"} =>
                       Cardinality({j \in DOMAIN m.block :
                           m.block[j] = m.props[k][1] \o "=" \o m.props[k][2]}) = 1
            /\ Len(m.block) =
                   2 + Cardinality({k \in DOMAIN m.props :
                                        m.props[k][1] \notin {"ACTION", "SEQNUM"}})

\* C25 witness: a remove was sent for a device that carries ACTION=bind
\* and SEQNUM=4711.
C25_Witness ==
    \E i \in DOMAIN sendLog :
        /\ sendLog[i].event = "remove"
        /\ sendLog[i].props[1] = <<"ACTION", "bind">>
        /\ sendLog[i].block = <<"ACTION=remove", "SEQNUM=" \o Decimal(i), "DEVNAME=ttyUSB0">>


\* The number a pair of halves stands for, carried into the high half.
Norm(x) == <<x[1] + (x[2] \div 65536), x[2] % 65536>>

\* id lies in [inside, inside + count), said without the sum.
InLine(l, id) == ~Lt(id, l.inside) /\ Lt(Sub(id, l.inside), l.count)

\* inside + count does not fit a u32.
EndOverflows(l) == Norm(<<l.inside[1] + l.count[1], l.inside[2] + l.count[2]>>)[1] >= 65536

\* out = id - inside + outside, as numbers.
IsImage(l, id, out) ==
    Norm(<<out[1] + l.inside[1], out[2] + l.inside[2]>>)
        = Norm(<<id[1] + l.outside[1], id[2] + l.outside[2]>>)

IsU32(x) == x[1] \in 0..65535 /\ x[2] \in 0..65535

VerbOf(args) == args[IF args[2] = "--log" THEN 4 ELSE 2]

\* Nothing of a supervisor exists: no fork, no filter, no monitor, no loop.
NoSupervisor ==
    /\ forks = 0 /\ runcRuns = 0
    /\ apc = "idle" /\ attached = {} /\ pin = "none"
    /\ cpc = "idle" /\ hpc = "idle" /\ mpc = "idle"

NamedConfigErrors == {"annotation", "device_parse", "device", "symlink"}

LastAdded ==
    {SysOf(mlog[i]) : i \in {j \in DOMAIN mlog :
        /\ mlog[j].t = "add"
        /\ \A k \in (j + 1)..Len(mlog) : SysOf(mlog[k]) # SysOf(mlog[j])}}

\* Per syspath the returned events alternate, starting with an Add.
Alternates ==
    \A j \in DOMAIN mlog :
        LET before == {i \in 1..(j - 1) : SysOf(mlog[i]) = SysOf(mlog[j])}
        IN  IF before = {}
            THEN mlog[j].t = "add"
            ELSE LET last == CHOOSE i \in before : \A k \in before : k <= i
                 IN  mlog[j].t = IF mlog[last].t = "add" THEN "remove" ELSE "add"

\* C30 as claimed: per syspath the returned events alternate, starting with
\* an Add, and once an event has been returned the seen map holds exactly
\* the syspaths whose last returned event is an Add.
C30_AlternatesSeenIsLastAdded ==
    /\ Alternates
    /\ (mpc = "ready" /\ mlog # <<>>) => DOMAIN seen = LastAdded

\* C30 (amended): per syspath the returned events alternate, starting with
\* an Add, and the seen map holds exactly the syspaths whose last returned
\* event is an Add together with the syspaths of the enumerated devices that
\* are still queued.
C30_AlternatesSeenIsLastAddedOrQueued ==
    /\ Alternates
    /\ mpc = "ready" =>
           DOMAIN seen = LastAdded \cup {enumerated[i].udev.sys : i \in DOMAIN enumerated}
    /\ mpc = "ready" =>
           \A i \in DOMAIN enumerated : enumerated[i].udev.sys \notin LastAdded

\* C30 witness: two devices were enumerated and returned; the second was
\* then removed and added again, and the seen map holds both.
C30_Witness ==
    /\ Len(scanned) = 2
    /\ Len(mlog) = 4
    /\ mlog[2].t = "add" /\ mlog[3].t = "remove" /\ mlog[4].t = "add"
    /\ SysOf(mlog[2]) = DevPath /\ SysOf(mlog[3]) = DevPath /\ SysOf(mlog[4]) = DevPath
    /\ DOMAIN seen = {HubPath, DevPath}
    /\ enumerated = <<>>


\* C26: whatever enter does and however it ends, the calling thread keeps
\* its uid, gid, secure bits and mount namespace and its fs struct keeps the
\* host's view; what changes belongs to the worker thread, and the worker
\* has ended when enter returns.
C26_EnterLeavesCallerAlone ==
    /\ caller.uid = 0 /\ caller.gid = 0
    /\ caller.mnt = "host" /\ caller.secbits = ""
    /\ fsView[caller.fs] = "host"
    /\ enterRet # "" => (wpc = "none" /\ enters > 0)
    /\ (wpc \notin {"none", "unshare", "setns"} /\ worker.mnt = "container")
           => worker.fs # caller.fs

\* C26 witness: the worker moved to the container's mount namespace, took
\* uid and gid 1000 there, and f panicked.
C26_Witness ==
    /\ wpc = "panicked"
    /\ worker.mnt = "container" /\ fsView[worker.fs] = "container"
    /\ worker.secbits = "NO_SETUID_FIXUP"
    /\ worker.uid = 1000 /\ worker.gid = 1000
    /\ caller = [mnt |-> "host", fs |-> 1, secbits |-> "", uid |-> 0, gid |-> 0]


\* The syspaths of the devices that are plugged in under the root device.
PresentUnderRoot == {d.sys : d \in {p \in present : StartsWith(p.sys, HubPath)}}

\* The consumer has taken everything the monitor holds.
Drained == mpc = "ready" /\ enumerated = <<>> /\ sockq = <<>>

\* C31: whenever the consumer has drained the stream the seen map holds
\* exactly the syspaths plugged in under the root, however plugs and unplugs
\* were interleaved with the opening of the socket and the enumeration; and a
\* consumer that keeps polling gets the stream drained.
C31_SeenConvergesToPresent ==
    /\ [](Drained => DOMAIN seen = PresentUnderRoot)
    /\ (mpc = "ready" ~> (Drained /\ DOMAIN seen = PresentUnderRoot))

\* C31 witness: two devices were enumerated, the kernel sent three uevents,
\* the serial device is gone, and the drained monitor has only the root
\* device in its seen map.
C31_Witness ==
    /\ Drained
    /\ nkern = 3
    /\ Len(scanned) = 2
    /\ present = {DevHub}
    /\ DOMAIN seen = {HubPath}
    /\ Len(mlog) = 3 /\ mlog[3].t = "remove"


\* C32: after any sequence of set_permission calls the filter map has no
\* entry with an empty mask, a key whose last call passed a non-empty mask
\* holds exactly that mask, and a key whose last call passed the empty mask,
\* or that was never set, has no entry.
C32_MapIsLastNonEmptyMask ==
    /\ \A k \in DOMAIN filterMap : filterMap[k] # 0
    /\ (apc = "done" /\ hpc = "idle" /\ cpc = "idle") =>
        /\ DOMAIN filterMap \subseteq DOMAIN permSet
        /\ \A k \in DOMAIN permSet :
               IF permSet[k] = 0
               THEN k \notin DOMAIN filterMap
               ELSE k \in DOMAIN filterMap /\ filterMap[k] = permSet[k]

\* C32 witness: one key was last set to the empty mask and has no entry
\* while another holds the mask it was last set to.
C32_Witness ==
    /\ apc = "done" /\ hpc = "idle" /\ cpc = "idle"
    /\ DOMAIN permSet = {<<Character, 7, 1>>, <<Character, 0, 0>>}
    /\ permSet[<<Character, 7, 1>>] = 0
    /\ permSet[<<Character, 0, 0>>] = READ + WRITE
    /\ DOMAIN filterMap = {<<Character, 0, 0>>}
    /\ filterMap[<<Character, 0, 0>>] = READ + WRITE


\* The operations of an Add that replaced a live device: the old device is
\* denied and removed, then the new one is allowed and created.
ReAddOps ==
    { <<"device", "rm">> \o l \o <<"device", "mknod">> \o m \o <<"uevent">> :
          l \in {<<>>, <<"rm">>}, m \in {<<>>, <<"symlink">>} }

\* C33: when an Add for a syspath of the live map returned without error
\* and put a different descriptor there, the old attachment was reversed
\* before the new one was applied, the live map has the new descriptor under
\* that syspath and is otherwise as before, the new device is in the filter
\* and in /dev, and what only the old descriptor had (its filter entry, its
\* devnode, its symlink) is gone.
C33_ReAddReplacesOld ==
    [][\A p \in DOMAIN devices :
          (/\ lastEvent' = "add" /\ opErr' = ""
           /\ p \in DOMAIN devices' /\ devices'[p] # devices[p]) =>
              LET old == devices[p]
                  new == devices'[p]
              IN  /\ ops' \in ReAddOps
                  /\ new.sys = p
                  /\ devices' = Put(devices, p, new)
                  /\ Key(new.num) \in DOMAIN filterMap'
                  /\ filterMap'[Key(new.num)] = READ + WRITE + MKNOD
                  /\ new.node \in DOMAIN fs' /\ fs'[new.node].num = new.num
                  /\ old.num # new.num => Key(old.num) \notin DOMAIN filterMap'
                  /\ old.node # new.node => old.node \notin DOMAIN fs'
                  /\ (old.link # "" /\ old.link # new.link) => old.link \notin DOMAIN fs'
      ]_vars

\* C33 witness: /sys/hub/tty was live as ttyUSB0 and was added again as
\* ttyUSB1; the old node and the old filter entry are gone.
C33_Witness ==
    /\ lastEvent = "add" /\ opErr = "" /\ hpc = "run"
    /\ ops \in ReAddOps
    /\ devices[DevPath] = Summary(DevTtyB)
    /\ DevTty.node \notin DOMAIN fs
    /\ DevTtyB.node \in DOMAIN fs
    /\ Key(DevTty.num) \notin DOMAIN filterMap
    /\ Key(DevTtyB.num) \in DOMAIN filterMap


\* The paths of all the rules that match a device.
MatchingLinks(d) == {Symlinks[i].path : i \in {j \in 1..Len(Symlinks) : Matches(Symlinks[j], d)}}

\* C34: after an Add that returned no error, every live device has, in the
\* container, the link of each configured rule that matches it, each link
\* pointing at the device's node.
C34_EveryMatchingRuleLinked ==
    (lastEvent = "add" /\ opErr = "" /\ hpc = "run") =>
        \A d \in Universe :
            (d.sys \in DOMAIN devices /\ devices[d.sys].num = d.num) =>
                \A l \in MatchingLinks(d) :
                    l \in DOMAIN fs /\ fs[l].kind = "lnk"


\* What a handler leaves behind for the loop.
HandlerTrace == <<lastEvent, ops, opErr, detached>>

\* C35: a Remove that reached the loop and took no syspath out of the live
\* map (its syspath was not there) changes neither the live map nor the
\* filter map nor the container's /dev, runs no operation, sends no uevent
\* and lets the loop go on.
C35_UnknownRemoveChangesNothing ==
    [][(/\ lastEvent' = "remove"
        /\ HandlerTrace' # HandlerTrace
        /\ DOMAIN devices' = DOMAIN devices) =>
           /\ devices' = devices
           /\ filterMap' = filterMap
           /\ fs' = fs
           /\ ops' = <<>> /\ opErr' = ""
           /\ hpc' = "run" /\ cstate' = cstate /\ filterOpt' = filterOpt
      ]_vars

\* C35 witness: with devices attached, a Remove for a syspath that is not in
\* the live map came from the monitor and ran nothing.
C35_Witness ==
    /\ lastEvent = "remove" /\ ops = <<>> /\ opErr = "" /\ detached = NoSummary
    /\ hpc = "run" /\ phase = "live" /\ nlive >= 1
    /\ DOMAIN devices = {HubPath, DevPath}
    /\ DevTty.node \in DOMAIN fs
    /\ Key(DevTty.num) \in DOMAIN filterMap


\* The supervisor of create() is in its loop, or in the kill and wait of the
\* hub-detached arm.
InCreateLoop == entry = "create" /\ cpc \in {"loop", "kill", "wait"}

PastRunc == cpc \in {"container", "state", "handle", "new"}

C38_MaxIdRejected ==
    handle # NoUser =>
        /\ handle[1] # U32Max /\ handle[2] # U32Max
        /\ handle = cfgUser


\* The watcher task spawned by Container::new has finished: it sent true, or
\* it ended with an error and dropped the sender.
WatcherFinished == watch \in {"true", "closed"}

\* create() has ended, by returning or by a signal.
CreateEnded == cpc \in {"exited", "failed", "killed"}

\* C39: once the watcher task has finished no caller of Container::wait()
\* stays blocked: the wait of the hub-detached arm, called before or after
\* the watcher finished, can return at once and does return, with Ok (the
\* loop is left for the drop) when the watcher sent true and with an error
\* (create() fails) when it ended without; and the wait of the container
\* stream, pending since the loop started, hands the loop its Stopped or its
\* error, so the loop is left as well.
C39_WaitReturnsOnceWatcherFinished ==
    /\ []((entry = "create" /\ cpc = "wait" /\ WatcherFinished) => ENABLED CrWait)
    /\ [][(entry = "create" /\ cpc = "wait" /\ cpc' # "wait" /\ cpc' # "killed") =>
              /\ WatcherFinished
              /\ watch = "true" => cpc' = "drop"
              /\ watch = "closed" => (cpc' = "failed" /\ exitCode' = ExitFailure)]_vars
    /\ (entry = "create" /\ cpc = "wait" /\ watch = "true") ~> (cpc = "exited" \/ cpc = "killed")
    /\ (entry = "create" /\ cpc = "wait" /\ watch = "closed") ~> (cpc = "failed" \/ cpc = "killed")
    /\ (entry = "create" /\ cpc = "loop" /\ WatcherFinished) ~> (cpc # "loop")
    /\ [][(entry = "create" /\ cpc = "loop" /\ cpc' = "drop") => watch = "true"]_vars

\* C39 witness: the container had gone and the watcher had sent true before
\* the hub's removal was handled; the wait called after that returned Ok.
C39_Witness ==
    /\ entry = "create" /\ cpc = "drop"
    /\ hubDetached /\ ~detachAlive
    /\ watch = "true"
    /\ killCalls = 1


\* C40: every signal the wrapper received was forwarded to the container
\* as a kill with that same signal.
C40_SameSignalForwarded ==
    \A i \in DOMAIN sigLog : sigLog[i].kill = sigLog[i].got

====
